---- MODULE Spec2Model ----
(***************************************************************************)
(* A model of the drom.ru crawler of this repository: the encoding        *)
(* resolver (_ensure_text_bytes), the key/value extractor                  *)
(* (_parse_kv_pairs), the bounded-concurrency fetcher (_fetch), link       *)
(* collection (collect_links), detail fetching (fetch_and_parse_details)   *)
(* the sequential crawler of src/datasets/parser.py (parse_drom), the      *)
(* field extractors and the record sink (save_csv), and the navigation of  *)
(* the dashboard (go_to_page, go_back, go_home).                           *)
(*                                                                         *)
(* The repository holds near-duplicate revisions of the crawler.  The      *)
(* variable rev says which revision a behaviour runs:                      *)
(*   "parser_mod"  src/parser/parser_mod.py                                *)
(*   "parser"      src/parser.py                                           *)
(* Bytes are integers 0..255, texts are sequences of Unicode code points.  *)
(***************************************************************************)
EXTENDS Integers, Sequences, FiniteSets, TLC

VARIABLES
    rev,          \* the revision of the crawler that runs
    \* ---- encoding resolver (one response being decoded by _fetch)
    encPc,        \* "idle" | "ready" | "done"
    content,      \* the response body, a sequence of bytes
    respHeaders,  \* the response headers as received: a sequence of [name, value]
    encHeaders,   \* the header map handed to _ensure_text_bytes
    encText,      \* what _ensure_text_bytes returned: [ok, text]
    \* ---- key/value extractor (_parse_kv_pairs over one detail page)
    kvPc,         \* "idle" | "scan" | "done"
    kvPage,       \* the page's elements in document order: [tag, cells]
    kvPos,        \* how many candidates the loops have visited
    kv,           \* the dict being built, in insertion order: [k, v]
    \* ---- the asynchronous crawl (main_async)
    phase,        \* where main_async stands: "idle" | "start" | "listing" |
                  \*   "collected" | "detail" | "done" (it returned) |
                  \*   "raised" (it ended with an exception)
    pages,        \* --pages
    concurrency,  \* --concurrency
    semSize,      \* the value the phase's asyncio.Semaphore was built with
    sem,          \* the semaphore's free slots
    urls,         \* the URLs of the phase's fetch tasks, in task order
    tpc,          \* each task's position in _fetch
    tres,         \* each finished task's return value
    tstatus,      \* the HTTP status each finished task saw (0: the request raised)
    arrival,      \* the tasks in the order they finished
    requests,     \* how many times each URL was requested in this run
    rawLinks,     \* collect_links' list "links" before deduplication
    links,        \* what collect_links returned
    records,      \* the list "results" of fetch_and_parse_details; what
                  \*   main_async returned
    parsing,      \* the index of the result whose page the parse thread holds
                  \*   (src/parser.py), 0 when none
    \* ---- the sequential crawl of src/datasets/parser.py (parse_drom)
    dromPc,       \* "idle" | "listing" | "details" | "done" | "raised"
                  \*   (parse_drom ended with an exception)
    dromPages,    \* the argument pages
    dromPage,     \* the listing loop's page
    dromRaw,      \* the list "links" before deduplication
    dromLinks,    \* the deduplicated links
    dromIdx,      \* the detail loop's index into the links
    dromRequests, \* the URLs requested so far, in order
    dromResults,  \* the list "results"
    \* ---- price parsing (one call of _parse_price)
    pricePc,      \* "idle" | "called" | "returned"
    priceText,    \* the argument text
    priceOut,     \* the return value
    \* ---- detail extraction (one call of _parse_detail_from_text)
    detPc,        \* "idle" | "called" | "returned"
    detPage,      \* the detail page: [href, title, price, els, equip, note]
    detRecord,    \* the dict returned
    \* ---- the record sink (one call of save_csv)
    csvPc,        \* "idle" | "called" | "returned" | "raised"
    csvItems,     \* the argument items
    csvPath,      \* the argument path: [dir, name]
    fs,           \* the file system: [dirs, files]
    \* ---- the listing page scanner (the loop body of collect_links)
    scanPc,       \* "idle" | "called" | "returned"
    scanPage,     \* the fetched listing page: [url, anchors]
    scanOut,      \* the links the page added to the list "links"
    \* ---- generation extraction (one call of _extract_generation)
    genPc,        \* "idle" | "called" | "returned"
    genTitle,     \* the argument title_text
    genKv,        \* the argument kv, in insertion order: [k, v]
    genOut,       \* the generation returned ("" for None)
    \* ---- key normalization (one call of _norm_key)
    normPc,       \* "idle" | "called" | "returned"
    normKey,      \* the argument k
    normOut,      \* the key returned
    \* ---- the dashboard's navigation (st.session_state)
    navPage,      \* session_state.page ("unset" before the script has run)
    navHistory    \* session_state.history, the last element on top

EncVars == <<encPc, content, respHeaders, encHeaders, encText>>
KvVars == <<kvPc, kvPage, kvPos, kv>>
CrawlVars == <<phase, pages, concurrency, semSize, sem, urls, tpc, tres,
               tstatus, arrival, requests, rawLinks, links, records,
               parsing>>
DromVars == <<dromPc, dromPages, dromPage, dromRaw, dromLinks, dromIdx,
              dromRequests, dromResults>>

PriceVars == <<pricePc, priceText, priceOut>>
DetVars == <<detPc, detPage, detRecord>>
CsvVars == <<csvPc, csvItems, csvPath, fs>>
ScanVars == <<scanPc, scanPage, scanOut>>
GenVars == <<genPc, genTitle, genKv, genOut>>
NormVars == <<normPc, normKey, normOut>>
NavVars == <<navPage, navHistory>>

vars == <<rev, EncVars, KvVars, CrawlVars, DromVars, PriceVars, DetVars,
          CsvVars, ScanVars, GenVars, NormVars, NavVars>>

\* What the actions of one part of the model leave alone.
NotEnc == <<KvVars, CrawlVars, DromVars, PriceVars, DetVars, CsvVars,
            ScanVars, GenVars, NormVars, NavVars>>
NotKv == <<EncVars, CrawlVars, DromVars, PriceVars, DetVars, CsvVars,
           ScanVars, GenVars, NormVars, NavVars>>
NotCrawl == <<EncVars, KvVars, DromVars, PriceVars, DetVars, CsvVars,
              ScanVars, GenVars, NormVars, NavVars>>
NotDrom == <<EncVars, KvVars, CrawlVars, PriceVars, DetVars, CsvVars,
             ScanVars, GenVars, NormVars, NavVars>>
NotPrice == <<EncVars, KvVars, CrawlVars, DromVars, DetVars, CsvVars,
              ScanVars, GenVars, NormVars, NavVars>>
NotDet == <<EncVars, KvVars, CrawlVars, DromVars, PriceVars, CsvVars,
            ScanVars, GenVars, NormVars, NavVars>>
NotCsv == <<EncVars, KvVars, CrawlVars, DromVars, PriceVars, DetVars,
            ScanVars, GenVars, NormVars, NavVars>>
NotScan == <<EncVars, KvVars, CrawlVars, DromVars, PriceVars, DetVars,
             CsvVars, GenVars, NormVars, NavVars>>
NotGen == <<EncVars, KvVars, CrawlVars, DromVars, PriceVars, DetVars,
            CsvVars, ScanVars, NormVars, NavVars>>
NotNorm == <<EncVars, KvVars, CrawlVars, DromVars, PriceVars, DetVars,
             CsvVars, ScanVars, GenVars, NavVars>>
NotNav == <<EncVars, KvVars, CrawlVars, DromVars, PriceVars, DetVars,
            CsvVars, ScanVars, GenVars, NormVars>>

Revisions == {"parser_mod", "parser"}

-----------------------------------------------------------------------------
(* Bounds of the model.                                                    *)

\* Number of chunks a response body is built from.
MaxChunks == 2

\* Number of elements of a detail page.
MaxElems == 3

\* Largest --pages and --concurrency of a crawl.
MaxPages == 3
MaxConc == 2

-----------------------------------------------------------------------------
(* Strings, as sequences of character codes.                               *)

\* "content-type"
ContentTypeKey == <<99, 111, 110, 116, 101, 110, 116, 45, 116, 121, 112, 101>>
\* "Content-Type"
ContentTypeTitle == <<67, 111, 110, 116, 101, 110, 116, 45, 84, 121, 112, 101>>
\* "CONTENT-TYPE"
ContentTypeUpper == <<67, 79, 78, 84, 69, 78, 84, 45, 84, 89, 80, 69>>
\* "text/html"
CtPlain == <<116, 101, 120, 116, 47, 104, 116, 109, 108>>
\* "text/html; charset=windows-1251"
CtWindows1251 == <<116, 101, 120, 116, 47, 104, 116, 109, 108, 59, 32, 99, 104,
                   97, 114, 115, 101, 116, 61, 119, 105, 110, 100, 111, 119,
                   115, 45, 49, 50, 53, 49>>
\* "text/html; charset=cp1251"
CtCp1251 == <<116, 101, 120, 116, 47, 104, 116, 109, 108, 59, 32, 99, 104, 97,
              114, 115, 101, 116, 61, 99, 112, 49, 50, 53, 49>>
\* "text/html; charset=utf-8"
CtUtf8 == <<116, 101, 120, 116, 47, 104, 116, 109, 108, 59, 32, 99, 104, 97,
            114, 115, 101, 116, 61, 117, 116, 102, 45, 56>>
\* "text/html; charset=Windows-1251"
CtWindows1251Mixed == <<116, 101, 120, 116, 47, 104, 116, 109, 108, 59, 32, 99,
                        104, 97, 114, 115, 101, 116, 61, 87, 105, 110, 100,
                        111, 119, 115, 45, 49, 50, 53, 49>>
\* "windows-1251"
StrWindows1251 == <<119, 105, 110, 100, 111, 119, 115, 45, 49, 50, 53, 49>>
\* "cp1251"
StrCp1251 == <<99, 112, 49, 50, 53, 49>>
\* "charset=windows-1251"
StrCharsetMarker == <<99, 104, 97, 114, 115, 101, 116, 61, 119, 105, 110, 100,
                      111, 119, 115, 45, 49, 50, 53, 49>>

\* The code points of str.lower() that the model's texts use: ASCII, Latin-1
\* and the basic Cyrillic letters.
LowerChar(c) ==
    IF c \in 65..90 \/ c \in 192..214 \/ c \in 216..222 \/ c \in 1040..1071
    THEN c + 32
    ELSE IF c \in 1024..1039 THEN c + 80 ELSE c

\* str.lower()
StrLower(s) == [i \in 1..Len(s) |-> LowerChar(s[i])]

\* sub in s
Contains(sub, s) ==
    \E i \in 0..(Len(s) - Len(sub)) : SubSeq(s, i + 1, i + Len(sub)) = sub

\* s[:n]
Prefix(s, n) == SubSeq(s, 1, IF Len(s) < n THEN Len(s) ELSE n)

-----------------------------------------------------------------------------
(* The codecs of bytes.decode, as far as _ensure_text_bytes uses them.  A  *)
(* decode returns [ok |-> TRUE, text |-> t], or [ok |-> FALSE] (with an    *)
(* empty text) where Python raises UnicodeDecodeError.                     *)

Decoded(t) == [ok |-> TRUE, text |-> t]
DecodeRaised == [ok |-> FALSE, text |-> <<>>]

\* cp1251, bytes 0x80..0xBF; the entry of 0x98, the one byte the code page
\* leaves undefined, is 0 and never read.
Cp1251High ==
    <<1026, 1027, 8218, 1107, 8222, 8230, 8224, 8225, 8364, 8240, 1033, 8249,
      1034, 1036, 1035, 1039, 1106, 8216, 8217, 8220, 8221, 8226, 8211, 8212,
      0, 8482, 1113, 8250, 1114, 1116, 1115, 1119, 160, 1038, 1118, 1032, 164,
      1168, 166, 167, 1025, 169, 1028, 171, 172, 173, 174, 1031, 176, 177,
      1030, 1110, 1169, 181, 182, 183, 1105, 8470, 1108, 187, 1112, 1029,
      1109, 1111>>

\* The byte cp1251 has no character for (0x98).
Cp1251Undefined(b) == b = 152

\* The code point of one cp1251 byte.
Cp1251Char(b) ==
    IF b < 128 THEN b
    ELSE IF b < 192 THEN Cp1251High[b - 127]
    ELSE 1040 + (b - 192)

RECURSIVE Cp1251From(_, _, _)
Cp1251From(c, i, errors) ==
    IF i > Len(c) THEN Decoded(<<>>)
    ELSE LET rest == Cp1251From(c, i + 1, errors)
         IN  IF ~Cp1251Undefined(c[i])
             THEN IF rest.ok THEN Decoded(<<Cp1251Char(c[i])>> \o rest.text)
                  ELSE DecodeRaised
             ELSE CASE errors = "strict" -> DecodeRaised
                    [] errors = "replace" ->
                         IF rest.ok THEN Decoded(<<65533>> \o rest.text)
                         ELSE DecodeRaised
                    [] OTHER -> rest  \* "ignore": the byte is dropped

\* content.decode("cp1251", errors=errors)
DecodeCp1251(c, errors) == Cp1251From(c, 1, errors)

\* content.decode("latin1", errors=...): every byte is its own code point.
DecodeLatin1(c) == Decoded([i \in 1..Len(c) |-> c[i]])

At(c, i) == IF i <= Len(c) THEN c[i] ELSE -1
IsCont(b) == b \in 128..191

\* One step of the UTF-8 decoder at position i: a well-formed sequence of n
\* bytes and its code point, or an error covering n bytes (the maximal
\* well-formed prefix, which Python replaces by one U+FFFD).
Utf8Step(c, i) ==
    LET b  == c[i]
        b2 == At(c, i + 1)
        b3 == At(c, i + 2)
        b4 == At(c, i + 3)
        good(n, cp) == [ok |-> TRUE, n |-> n, cp |-> cp]
        bad(n) == [ok |-> FALSE, n |-> n, cp |-> 0]
    IN  CASE b < 128 -> good(1, b)
          [] b \in 194..223 ->
               IF IsCont(b2) THEN good(2, (b - 192) * 64 + (b2 - 128))
               ELSE bad(1)
          [] b \in 224..239 ->
               LET lo == IF b = 224 THEN 160 ELSE 128
                   hi == IF b = 237 THEN 159 ELSE 191
               IN  IF b2 \notin lo..hi THEN bad(1)
                   ELSE IF ~IsCont(b3) THEN bad(2)
                   ELSE good(3, (b - 224) * 4096 + (b2 - 128) * 64 + (b3 - 128))
          [] b \in 240..244 ->
               LET lo == IF b = 240 THEN 144 ELSE 128
                   hi == IF b = 244 THEN 143 ELSE 191
               IN  IF b2 \notin lo..hi THEN bad(1)
                   ELSE IF ~IsCont(b3) THEN bad(2)
                   ELSE IF ~IsCont(b4) THEN bad(3)
                   ELSE good(4, (b - 240) * 262144 + (b2 - 128) * 4096
                                 + (b3 - 128) * 64 + (b4 - 128))
          [] OTHER -> bad(1)

RECURSIVE Utf8From(_, _, _)
Utf8From(c, i, errors) ==
    IF i > Len(c) THEN Decoded(<<>>)
    ELSE LET s == Utf8Step(c, i)
             rest == Utf8From(c, i + s.n, errors)
         IN  IF s.ok
             THEN IF rest.ok THEN Decoded(<<s.cp>> \o rest.text) ELSE DecodeRaised
             ELSE CASE errors = "strict" -> DecodeRaised
                    [] errors = "replace" ->
                         IF rest.ok THEN Decoded(<<65533>> \o rest.text)
                         ELSE DecodeRaised
                    [] OTHER -> rest  \* "ignore"

\* content.decode("utf-8", errors=errors)
DecodeUtf8(c, errors) == Utf8From(c, 1, errors)

-----------------------------------------------------------------------------
(* Header maps.  aiohttp's resp.headers is a case-insensitive multi-map    *)
(* ("ci"); dict(resp.headers) is a plain dict keyed by the names as        *)
(* received ("dict"); "none" is None.                                      *)

NoHeaders == [kind |-> "none", items |-> <<>>]
EmptyDict == [kind |-> "dict", items |-> <<>>]

\* The indices of the items headers.get(key) may answer with.
HeaderHits(h, key) ==
    {i \in 1..Len(h.items) :
        IF h.kind = "ci" THEN StrLower(h.items[i].name) = StrLower(key)
        ELSE h.items[i].name = key}

Min(S) == CHOOSE x \in S : \A y \in S : x <= y
Max(S) == CHOOSE x \in S : \A y \in S : x >= y

\* headers.get(key, default): the first match of a multi-map, the last
\* assignment of a dict.
HeadersGet(h, key, default) ==
    LET hits == HeaderHits(h, key)
    IN  IF hits = {} THEN default
        ELSE IF h.kind = "ci" THEN h.items[Min(hits)].value
        ELSE h.items[Max(hits)].value

\* bool(headers)
HeadersTruthy(h) == h.kind # "none" /\ Len(h.items) > 0

\* The header map _fetch hands to _ensure_text_bytes: resp.headers in
\* parser_mod.py, dict(resp.headers) in parser.py.
FetchHeaders(r, hdrs) ==
    IF r = "parser_mod" THEN [kind |-> "ci", items |-> hdrs]
    ELSE [kind |-> "dict", items |-> hdrs]

-----------------------------------------------------------------------------
(* The encoding resolver.                                                  *)

\* Number of leading bytes searched for a charset marker.
SnippetLen == 2000

\* src/parser/parser_mod.py
_ensure_text_bytes_mod(c, h) ==
    LET ct == IF HeadersTruthy(h)
              THEN StrLower(HeadersGet(h, ContentTypeKey, <<>>))
              ELSE <<>>
        declared == \/ Contains(StrCharsetMarker, ct)
                    \/ Contains(StrCp1251, ct)
                    \/ Contains(StrWindows1251, ct)
        viaHeader == DecodeCp1251(c, "ignore")
        strict == DecodeUtf8(c, "strict")
        latin == DecodeLatin1(c)
    IN  IF declared /\ viaHeader.ok THEN viaHeader
        ELSE IF strict.ok THEN strict
        ELSE IF latin.ok THEN latin
        ELSE DecodeUtf8(c, "ignore")

\* src/parser.py
_ensure_text_bytes(c, h) ==
    LET lastResort == DecodeUtf8(c, "replace")
        ct == StrLower(HeadersGet(h, ContentTypeKey, <<>>))
        viaHeader == DecodeCp1251(c, "replace")
        snippet == StrLower(DecodeLatin1(Prefix(c, SnippetLen)).text)
        strict == DecodeUtf8(c, "strict")
    IN  IF h.kind = "none" THEN lastResort  \* headers.get raises: last resort
        ELSE IF Contains(StrWindows1251, ct) \/ Contains(StrCp1251, ct)
        THEN IF viaHeader.ok THEN viaHeader ELSE lastResort
        ELSE IF Contains(StrCharsetMarker, snippet)
        THEN IF viaHeader.ok THEN viaHeader ELSE lastResort
        ELSE IF strict.ok THEN strict
        ELSE DecodeUtf8(c, "replace")

\* The resolver of revision r.
EnsureText(r, c, h) ==
    IF r = "parser_mod" THEN _ensure_text_bytes_mod(c, h)
    ELSE _ensure_text_bytes(c, h)

-----------------------------------------------------------------------------
(* Inputs of the encoding resolver.                                        *)

\* Pieces a body is built from: "A", the byte cp1251 leaves undefined (also
\* a UTF-8 continuation byte), a UTF-8 lead byte (0xD0 0x98 is U+0418), a
\* byte no UTF-8 text holds, and the charset marker of an HTML meta tag.
Chunks == {<<65>>, <<152>>, <<208>>, <<192>>, StrCharsetMarker}

RECURSIVE Flatten(_)
Flatten(cs) == IF cs = <<>> THEN <<>> ELSE Head(cs) \o Flatten(Tail(cs))

Payloads == {Flatten(cs) : cs \in UNION {[1..k -> Chunks] : k \in 0..MaxChunks}}

HeaderNames == {ContentTypeKey, ContentTypeTitle, ContentTypeUpper}
HeaderValues == {CtPlain, CtWindows1251, CtCp1251, CtUtf8, CtWindows1251Mixed}
HeaderLists ==
    {<<>>} \cup {<<[name |-> n, value |-> v]>> : n \in HeaderNames, v \in HeaderValues}

\* The response declares cp1251 in its Content-Type header, whatever the
\* letter case of the header's name.
DeclaresCp1251(hdrs) ==
    \E i \in 1..Len(hdrs) :
        /\ StrLower(hdrs[i].name) = ContentTypeKey
        /\ \/ Contains(StrWindows1251, StrLower(hdrs[i].value))
           \/ Contains(StrCp1251, StrLower(hdrs[i].value))

\* The first SnippetLen bytes hold the marker charset=windows-1251.
HasCharsetMarker(c) ==
    Contains(StrCharsetMarker, StrLower(DecodeLatin1(Prefix(c, SnippetLen)).text))

EncIdle ==
    /\ encPc = "idle"
    /\ content = <<>>
    /\ respHeaders = <<>>
    /\ encHeaders = NoHeaders
    /\ encText = DecodeRaised

\* A response has arrived in _fetch and is about to be decoded.
EncInit ==
    /\ rev \in Revisions
    /\ encPc = "ready"
    /\ content \in Payloads
    /\ respHeaders \in HeaderLists
    /\ encHeaders = NoHeaders
    /\ encText = DecodeRaised

\* _fetch: text = _ensure_text_bytes(content, resp.headers)
EncFetch ==
    /\ encPc = "ready"
    /\ encHeaders' = FetchHeaders(rev, respHeaders)
    /\ encText' = EnsureText(rev, content, encHeaders')
    /\ encPc' = "done"
    /\ UNCHANGED <<rev, content, respHeaders, NotEnc>>

\* _ensure_text_bytes called with no header map, or an empty one.
EncCall ==
    /\ encPc = "ready"
    /\ respHeaders = <<>>
    /\ encHeaders' \in {NoHeaders, EmptyDict}
    /\ encText' = EnsureText(rev, content, encHeaders')
    /\ encPc' = "called"
    /\ UNCHANGED <<rev, content, respHeaders, NotEnc>>

-----------------------------------------------------------------------------
(* The key/value extractor.  A detail page is the sequence of its elements *)
(* in document order; an element is its tag and the texts of its cells:    *)
(* a dt with the text of the dd that follows it (if any), a tr with the    *)
(* texts of its th/td cells, any other tag with its own text.              *)

\* str.isspace()
IsSpace(c) ==
    \/ c \in 9..13 \/ c \in 28..32 \/ c = 133 \/ c = 160 \/ c = 5760
    \/ c \in 8192..8202 \/ c = 8232 \/ c = 8233 \/ c = 8239 \/ c = 8287
    \/ c = 12288

RECURSIVE LStrip(_)
LStrip(s) == IF s # <<>> /\ IsSpace(Head(s)) THEN LStrip(Tail(s)) ELSE s

RECURSIVE RStrip(_)
RStrip(s) ==
    IF s # <<>> /\ IsSpace(s[Len(s)]) THEN RStrip(SubSeq(s, 1, Len(s) - 1)) ELSE s

\* str.strip()
Strip(s) == RStrip(LStrip(s))

\* The class [\s\: ] of _norm_key's pattern.
IsKeySep(c) == IsSpace(c) \/ c = 58 \/ c = 160

RECURSIVE DropKeySeps(_)
DropKeySeps(s) == IF s # <<>> /\ IsKeySep(Head(s)) THEN DropKeySeps(Tail(s)) ELSE s

\* re.sub(r'[\s\: ]+', ' ', s): every run of separators becomes one space.
RECURSIVE SubKeySeps(_)
SubKeySeps(s) ==
    IF s = <<>> THEN <<>>
    ELSE IF IsKeySep(Head(s)) THEN <<32>> \o SubKeySeps(DropKeySeps(Tail(s)))
    ELSE <<Head(s)>> \o SubKeySeps(Tail(s))

_norm_key(k) == IF k = <<>> THEN <<>> ELSE SubKeySeps(StrLower(Strip(k)))

\* ':' in txt
HasColon(txt) == \E i \in 1..Len(txt) : txt[i] = 58

FirstColon(txt) == Min({i \in 1..Len(txt) : txt[i] = 58})

\* txt.split(':', 1), for a text that holds a colon
SplitKey(txt) == SubSeq(txt, 1, FirstColon(txt) - 1)
SplitVal(txt) == SubSeq(txt, FirstColon(txt) + 1, Len(txt))

\* key in kv
KvHas(d, k) == \E i \in 1..Len(d) : d[i].k = k

\* kv[key]
KvGet(d, k) == d[CHOOSE i \in 1..Len(d) : d[i].k = k].v

\* kv[key] = val: a present key keeps its place and takes the new value.
KvAssign(d, k, v) ==
    IF KvHas(d, k)
    THEN [i \in 1..Len(d) |-> IF d[i].k = k THEN [k |-> k, v |-> v] ELSE d[i]]
    ELSE Append(d, [k |-> k, v |-> v])

\* kv.setdefault(key, val); also "if key not in kv: kv[key] = val"
KvSetDefault(d, k, v) == IF KvHas(d, k) THEN d ELSE Append(d, [k |-> k, v |-> v])

\* The elements a loop of the extractor selects, in document order.
Select(page, tags) == {i \in 1..Len(page) : page[i].tag \in tags}

RECURSIVE Ascending(_)
Ascending(S) ==
    IF S = {} THEN <<>> ELSE <<Min(S)>> \o Ascending(S \ {Min(S)})

\* The order in which _parse_kv_pairs visits the candidates of a page.
\* parser_mod.py: dt, tr, then "li, p, span"; parser.py: dt, tr, then
\* "strong, b, span", then li.
KvOrder(r, page) ==
    IF r = "parser_mod"
    THEN Ascending(Select(page, {"dt"})) \o Ascending(Select(page, {"tr"}))
         \o Ascending(Select(page, {"li", "p", "span"}))
    ELSE Ascending(Select(page, {"dt"})) \o Ascending(Select(page, {"tr"}))
         \o Ascending(Select(page, {"strong", "b", "span"}))
         \o Ascending(Select(page, {"li"}))

\* One iteration of the loops of src/parser/parser_mod.py.
KvVisitMod(d, el) ==
    CASE el.tag = "dt" ->
           LET key == _norm_key(el.cells[1])
               val == IF Len(el.cells) >= 2 THEN el.cells[2] ELSE <<>>
           IN  IF key # <<>> THEN KvAssign(d, key, val) ELSE d
      [] el.tag = "tr" ->
           IF Len(el.cells) >= 2 /\ _norm_key(el.cells[1]) # <<>>
           THEN KvAssign(d, _norm_key(el.cells[1]), el.cells[2])
           ELSE d
      [] OTHER ->
           LET txt == el.cells[1]
               key == _norm_key(SplitKey(txt))
               val == Strip(SplitVal(txt))
           IN  IF HasColon(txt) /\ key # <<>> THEN KvSetDefault(d, key, val)
               ELSE d

\* One iteration of the loops of src/parser.py.
KvVisit(d, el) ==
    CASE el.tag = "dt" ->
           IF Len(el.cells) >= 2 /\ _norm_key(el.cells[1]) # <<>>
           THEN KvSetDefault(d, _norm_key(el.cells[1]), el.cells[2])
           ELSE d
      [] el.tag = "tr" ->
           IF Len(el.cells) >= 2 /\ _norm_key(el.cells[1]) # <<>>
           THEN KvSetDefault(d, _norm_key(el.cells[1]), el.cells[2])
           ELSE d
      [] OTHER ->
           LET txt == el.cells[1]
           IN  IF HasColon(txt)
               THEN KvSetDefault(d, _norm_key(Strip(SplitKey(txt))),
                                 Strip(SplitVal(txt)))
               ELSE d

KvVisitRev(r, d, el) == IF r = "parser_mod" THEN KvVisitMod(d, el) ELSE KvVisit(d, el)

\* The dict after the first n candidates.
RECURSIVE KvAfter(_, _, _)
KvAfter(r, page, n) ==
    IF n = 0 THEN <<>>
    ELSE KvVisitRev(r, KvAfter(r, page, n - 1), page[KvOrder(r, page)[n]])

_parse_kv_pairs(r, page) == KvAfter(r, page, Len(KvOrder(r, page)))

\* Elements of the pages explored: the key "a" (also written "A") in a
\* definition list, a table row, a list item and inline tags, each with a
\* value of its own; a second key "b"; and elements the loops skip.
KvElements ==
    { [tag |-> "dt", cells |-> << <<97>>, <<49>> >>],        \* <dt>a</dt><dd>1</dd>
      [tag |-> "dt", cells |-> << <<65>>, <<50>> >>],        \* <dt>A</dt><dd>2</dd>
      [tag |-> "dt", cells |-> << <<97>> >>],                \* <dt>a</dt>, no dd
      [tag |-> "tr", cells |-> << <<97>>, <<51>> >>],        \* <tr><td>a<td>3
      [tag |-> "tr", cells |-> << <<98>> >>],                \* <tr><td>b
      [tag |-> "li", cells |-> << <<97, 58, 52>> >>],        \* <li>a:4
      [tag |-> "span", cells |-> << <<97, 58, 32, 53>> >>],  \* <span>a: 5
      [tag |-> "strong", cells |-> << <<98, 58, 54>> >>],    \* <strong>b:6
      [tag |-> "p", cells |-> << <<98, 58, 55>> >>],         \* <p>b:7
      [tag |-> "li", cells |-> << <<98>> >>] }               \* <li>b

KvPages == UNION {[1..n -> KvElements] : n \in 0..MaxElems}

KvIdle == kvPc = "idle" /\ kvPage = <<>> /\ kvPos = 0 /\ kv = <<>>

\* _parse_kv_pairs is entered with the parsed page: kv = {}
KvInit ==
    /\ rev \in Revisions
    /\ kvPc = "scan"
    /\ kvPage \in KvPages
    /\ kvPos = 0
    /\ kv = <<>>

\* One iteration of a loop of _parse_kv_pairs.
KvStep ==
    /\ kvPc = "scan"
    /\ kvPos < Len(KvOrder(rev, kvPage))
    /\ kvPos' = kvPos + 1
    /\ kv' = KvVisitRev(rev, kv, kvPage[KvOrder(rev, kvPage)[kvPos + 1]])
    /\ UNCHANGED <<rev, kvPc, kvPage, NotKv>>

\* return kv
KvReturn ==
    /\ kvPc = "scan"
    /\ kvPos = Len(KvOrder(rev, kvPage))
    /\ kvPc' = "done"
    /\ UNCHANGED <<rev, kvPage, kvPos, kv, NotKv>>

-----------------------------------------------------------------------------
(* The asynchronous crawl.  A page text is what the crawl reads of it: the *)
(* kind of document and the hrefs of the anchors its scan selects, in      *)
(* document order.  The network answers a request with an exception        *)
(* (connect error, timeout) or with a response of some status and text.    *)

Range(seq) == {seq[i] : i \in 1..Len(seq)}

\* DROM_BASE.format(p)
DromBase(p) == [kind |-> "listing", id |-> p]

DetailUrl(k) == [kind |-> "detail", id |-> k]

Text(doc, anchors) == [doc |-> doc, anchors |-> anchors]

NetError == [raised |-> TRUE, status |-> 0, text |-> Text("none", <<>>)]
Response(status, text) == [raised |-> FALSE, status |-> status, text |-> text]

\* What the site may answer for a listing page: a page of links (with a
\* repeated link, and links other pages also hold), an empty page, an
\* error page of status 404 that links to an advertisement, or a page
\* whose markup the HTML parser rejects.
ListingAnswers ==
    { NetError,
      Response(200, Text("listing", <<>>)),
      Response(200, Text("listing", <<DetailUrl(1), DetailUrl(2)>>)),
      Response(200, Text("listing", <<DetailUrl(2), DetailUrl(3), DetailUrl(2)>>)),
      Response(404, Text("notfound", <<DetailUrl(3)>>)),
      Response(200, Text("broken", <<>>)) }

\* What the site may answer for a detail page.
DetailAnswers ==
    { NetError,
      Response(200, Text("car", <<>>)),
      Response(404, Text("notfound", <<>>)),
      Response(200, Text("broken", <<>>)) }

\* Whether parsing a page text raises.  BeautifulSoup(text, "html.parser")
\* raises for markup that html.parser rejects (a marked section of an
\* unknown keyword, "<![foo["), and the int() calls of
\* src/parser/parser_mod.py that stand outside a try raise for a run of
\* digits beyond int's limit; the page "broken" stands for such a text.
ParseRaises(text) == text.doc = "broken"

Answers(u) == IF u.kind = "listing" THEN ListingAnswers ELSE DetailAnswers

\* The URLs a run may request.
AllUrls ==
    {DromBase(p) : p \in 1..MaxPages}
    \cup UNION {Range(a.text.anchors) : a \in ListingAnswers}

\* The return values of _fetch: None, or the pair (url, text).
None == [some |-> FALSE]
Pair(u, t) == [some |-> TRUE, url |-> u, text |-> t]

\* _fetch's return for an answer of the network: the except clause turns an
\* exception into None; a response of any status is read, decoded and
\* returned (session.get does not raise for a status).
FetchReturn(u, ans) == IF ans.raised THEN None ELSE Pair(u, ans.text)

\* asyncio.gather(*tasks): the tasks' results in the order of the tasks.
Gather(res, order) == res

\* Dedupe with a slip: the last occurrence of a repeated link is kept, not
\* the first.
RECURSIVE DedupeKeepLast(_)
DedupeKeepLast(seq) ==
    IF seq = <<>> THEN <<>>
    ELSE LET rest == DedupeKeepLast(Tail(seq))
         IN  IF \E i \in 1..Len(rest) : rest[i] = Head(seq) THEN rest
             ELSE <<Head(seq)>> \o rest

\* "for x in seq: if x not in seen: seen.add(x); out.append(x)"
RECURSIVE Dedupe(_)
Dedupe(seq) ==
    IF seq = <<>> THEN <<>>
    ELSE LET init == Dedupe(SubSeq(seq, 1, Len(seq) - 1))
             last == seq[Len(seq)]
         IN  IF \E i \in 1..Len(init) : init[i] = last THEN init
             ELSE Append(init, last)

\* Every order in which iterating a set may yield its elements.
SetOrders(S) ==
    {f \in [1..Cardinality(S) -> S] : \A i, j \in 1..Cardinality(S) : f[i] = f[j] => i = j}

\* The links the loop body of collect_links adds for one result, in the
\* order it adds them.  parser.py appends the anchors in document order;
\* parser_mod.py collects them in a set and extends by list(candidates),
\* whose order is the set's iteration order, and passes a page whose parse
\* raises ("except Exception: continue").
PageLinks(r, res) ==
    IF ~res.some THEN {<<>>}
    ELSE IF r = "parser_mod" /\ ParseRaises(res.text) THEN {<<>>}
    ELSE IF r = "parser_mod" THEN SetOrders(Range(res.text.anchors))
    ELSE {res.text.anchors}

\* The values "links" may hold before deduplication.
RECURSIVE CollectedSeqs(_, _)
CollectedSeqs(r, results) ==
    IF results = <<>> THEN {<<>>}
    ELSE {a \o b : a \in PageLinks(r, Head(results)),
                   b \in CollectedSeqs(r, Tail(results))}

\* _parse_detail_from_text(url, text) of one fetched page whose parse does
\* not raise: a record of the url and what the page text yields.
PageRecord(res) == [url |-> res.url, page |-> res.text.doc]

\* Whether the parse of one of the fetched pages raises.
AnyParseRaises(results) ==
    \E i \in 1..Len(results) : results[i].some /\ ParseRaises(results[i].text)

\* The loop of fetch_and_parse_details, src/parser/parser_mod.py: the
\* records of the fetched pages in the order of the results; a failed
\* fetch is passed, and so is a page whose parse raises ("except
\* Exception: continue").
RECURSIVE ParseAll(_)
ParseAll(results) ==
    IF results = <<>> THEN <<>>
    ELSE IF ~Head(results).some THEN ParseAll(Tail(results))
    ELSE IF ParseRaises(Head(results).text) THEN ParseAll(Tail(results))
    ELSE <<PageRecord(Head(results))>> \o ParseAll(Tail(results))

\* "for idx, item in enumerate(fetched, 1): if item is None: continue": the
\* index of the first fetched page after index j, or 0 when the loop ends.
NextFetched(results, j) ==
    LET S == {k \in (j + 1)..Len(results) : results[k].some}
    IN  IF S = {} THEN 0 ELSE Min(S)

\* max(2, concurrency // 2)
ListingLimiter(c) == IF c \div 2 > 2 THEN c \div 2 ELSE 2

CrawlIdle ==
    /\ phase = "idle"
    /\ pages = 0
    /\ concurrency = 0
    /\ semSize = 0
    /\ sem = 0
    /\ urls = <<>>
    /\ tpc = <<>>
    /\ tres = <<>>
    /\ tstatus = <<>>
    /\ arrival = <<>>
    /\ requests = <<>>
    /\ rawLinks = <<>>
    /\ links = <<>>
    /\ records = <<>>
    /\ parsing = 0

\* Nothing was requested yet.
NoRequests == [u \in AllUrls |-> 0]

\* main_async(pages, concurrency, ...) is called.
CrawlInit ==
    /\ rev \in Revisions
    /\ phase = "start"
    /\ pages \in -1..MaxPages  \* range(1, pages + 1) is empty for pages <= 0
    /\ concurrency \in 0..MaxConc
    /\ semSize = 0
    /\ sem = 0
    /\ urls = <<>>
    /\ tpc = <<>>
    /\ tres = <<>>
    /\ tstatus = <<>>
    /\ arrival = <<>>
    /\ requests = NoRequests
    /\ rawLinks = <<>>
    /\ links = <<>>
    /\ records = <<>>
    /\ parsing = 0

\* sem = asyncio.Semaphore(n); tasks = [create_task(_fetch(session, u, sem))
\* for u in us]: a phase's limiter and fetch tasks.
StartTasks(us, n) ==
    /\ semSize' = n
    /\ sem' = n
    /\ urls' = us
    /\ tpc' = [i \in 1..Len(us) |-> "acquire"]
    /\ tres' = [i \in 1..Len(us) |-> None]
    /\ tstatus' = [i \in 1..Len(us) |-> 0]
    /\ arrival' = <<>>

\* main_async calls collect_links(pages, max(2, concurrency // 2), ...).
CollectStart ==
    /\ phase = "start"
    /\ phase' = "listing"
    /\ StartTasks([p \in 1..pages |-> DromBase(p)], ListingLimiter(concurrency))
    /\ UNCHANGED <<rev, pages, concurrency, requests, rawLinks, links, records, parsing,
                   NotCrawl>>

\* Acquire with a slip: the task goes on without waiting for a free slot.
AcquireUnguarded(i) ==
    /\ tpc[i] = "acquire"
    /\ sem' = sem - 1
    /\ tpc' = [tpc EXCEPT ![i] = "sleep"]
    /\ UNCHANGED <<rev, phase, pages, concurrency, semSize, urls, tres, tstatus,
                   arrival, requests, rawLinks, links, records, parsing, NotCrawl>>

\* _fetch, "async with sem": task i takes a free slot.
Acquire(i) ==
    /\ tpc[i] = "acquire"
    /\ sem > 0
    /\ sem' = sem - 1
    /\ tpc' = [tpc EXCEPT ![i] = "sleep"]
    /\ UNCHANGED <<rev, phase, pages, concurrency, semSize, urls, tres, tstatus,
                   arrival, requests, rawLinks, links, records, parsing, NotCrawl>>

\* _fetch, "await asyncio.sleep(...)" returns and session.get sends the
\* request.
Send(i) ==
    /\ tpc[i] = "sleep"
    /\ tpc' = [tpc EXCEPT ![i] = "get"]
    /\ requests' = [requests EXCEPT ![urls[i]] = @ + 1]
    /\ UNCHANGED <<rev, phase, pages, concurrency, semSize, sem, urls, tres,
                   tstatus, arrival, rawLinks, links, records, parsing, NotCrawl>>

\* Finish with a slip: a request that raised is sent once more before the
\* task gives up.
FinishRetry(i) ==
    /\ tpc[i] = "get"
    /\ \E ans \in Answers(urls[i]) :
          IF ans.raised /\ requests[urls[i]] < 2
          THEN /\ tpc' = [tpc EXCEPT ![i] = "sleep"]
               /\ UNCHANGED <<tres, tstatus, sem, arrival>>
          ELSE /\ tres' = [tres EXCEPT ![i] = FetchReturn(urls[i], ans)]
               /\ tstatus' = [tstatus EXCEPT ![i] = ans.status]
               /\ tpc' = [tpc EXCEPT ![i] = "done"]
               /\ sem' = sem + 1
               /\ arrival' = Append(arrival, i)
    /\ UNCHANGED <<rev, phase, pages, concurrency, semSize, urls, requests,
                   rawLinks, links, records, parsing, NotCrawl>>

\* _fetch, the request ends: it raises, or a response is read and decoded;
\* the task returns and leaves "async with sem".
Finish(i) ==
    /\ tpc[i] = "get"
    /\ \E ans \in Answers(urls[i]) :
          /\ tres' = [tres EXCEPT ![i] = FetchReturn(urls[i], ans)]
          /\ tstatus' = [tstatus EXCEPT ![i] = ans.status]
    /\ tpc' = [tpc EXCEPT ![i] = "done"]
    /\ sem' = sem + 1
    /\ arrival' = Append(arrival, i)
    /\ UNCHANGED <<rev, phase, pages, concurrency, semSize, urls, requests,
                   rawLinks, links, records, parsing, NotCrawl>>

AllDone == \A i \in 1..Len(tpc) : tpc[i] = "done"

\* CollectReturn with a slip: collect_links goes on as soon as one listing
\* fetch has finished, without awaiting the others.
CollectReturnEarly ==
    /\ phase = "listing"
    /\ \/ \E i \in 1..Len(tpc) : tpc[i] = "done"
       \/ tpc = <<>>
    /\ IF rev = "parser" /\ AnyParseRaises(Gather(tres, arrival))
       THEN /\ phase' = "raised"
            /\ UNCHANGED <<rawLinks, links>>
       ELSE /\ rawLinks' \in CollectedSeqs(rev, Gather(tres, arrival))
            /\ links' = Dedupe(rawLinks')
            /\ phase' = "collected"
    /\ UNCHANGED <<rev, pages, concurrency, semSize, sem, urls, tpc, tres,
                   tstatus, arrival, requests, records, parsing, NotCrawl>>

\* collect_links after "await asyncio.gather": scan every result, dedupe,
\* return.  src/parser.py has no try around the parse of a page: an
\* exception there leaves collect_links and main_async.
CollectReturn ==
    /\ phase = "listing"
    /\ AllDone
    /\ IF rev = "parser" /\ AnyParseRaises(Gather(tres, arrival))
       THEN /\ phase' = "raised"
            /\ UNCHANGED <<rawLinks, links>>
       ELSE /\ rawLinks' \in CollectedSeqs(rev, Gather(tres, arrival))
            /\ links' = Dedupe(rawLinks')
            /\ phase' = "collected"
    /\ UNCHANGED <<rev, pages, concurrency, semSize, sem, urls, tpc, tres,
                   tstatus, arrival, requests, records, parsing, NotCrawl>>

\* ReturnEmpty with a slip: the results of the listing fetches are parsed
\* and returned where main_async has "return []".
ReturnEmptyStale ==
    /\ phase = "collected"
    /\ links = <<>>
    /\ records' = ParseAll(Gather(tres, arrival))
    /\ phase' = "done"
    /\ UNCHANGED <<rev, pages, concurrency, semSize, sem, urls, tpc, tres,
                   tstatus, arrival, requests, rawLinks, links, parsing, NotCrawl>>

\* main_async, "if not links: return []".
ReturnEmpty ==
    /\ phase = "collected"
    /\ links = <<>>
    /\ records' = <<>>
    /\ phase' = "done"
    /\ UNCHANGED <<rev, pages, concurrency, semSize, sem, urls, tpc, tres,
                   tstatus, arrival, requests, rawLinks, links, parsing, NotCrawl>>

\* main_async calls fetch_and_parse_details(links, concurrency, ...).
DetailsStart ==
    /\ phase = "collected"
    /\ links # <<>>
    /\ phase' = "detail"
    /\ StartTasks(links, concurrency)
    /\ rawLinks' = <<>>  \* a local of collect_links, which has returned
    /\ UNCHANGED <<rev, pages, concurrency, requests, links, records, parsing, NotCrawl>>

\* fetch_and_parse_details of src/parser.py after "await asyncio.gather":
\* the loop passes the failed fetches and hands the first fetched page to
\* the parse thread, "await asyncio.to_thread(_parse_detail_from_text, ...)";
\* the event loop runs on while the thread parses.
DetailsParse ==
    /\ rev = "parser"
    /\ phase = "detail"
    /\ AllDone
    /\ parsing = 0
    /\ NextFetched(Gather(tres, arrival), 0) # 0
    /\ parsing' = NextFetched(Gather(tres, arrival), 0)
    /\ UNCHANGED <<rev, phase, pages, concurrency, semSize, sem, urls, tpc, tres,
                   tstatus, arrival, requests, rawLinks, links, records,
                   NotCrawl>>

\* The parse thread ends.  When the parse raised, the await raises: there
\* is no try around it, the list "results" is lost and the exception leaves
\* fetch_and_parse_details and main_async.  Otherwise
\* "results.append(parsed)"; the loop hands the next fetched page to the
\* thread, or ends, and then fetch_and_parse_details and main_async return
\* the records.
DetailsParsed ==
    /\ phase = "detail"
    /\ parsing # 0
    /\ IF ParseRaises(Gather(tres, arrival)[parsing].text)
       THEN /\ records' = <<>>
            /\ parsing' = 0
            /\ phase' = "raised"
       ELSE /\ records' = Append(records, PageRecord(Gather(tres, arrival)[parsing]))
            /\ parsing' = NextFetched(Gather(tres, arrival), parsing)
            /\ phase' = IF parsing' = 0 THEN "done" ELSE "detail"
    /\ UNCHANGED <<rev, pages, concurrency, semSize, sem, urls, tpc, tres,
                   tstatus, arrival, requests, rawLinks, links, NotCrawl>>

\* fetch_and_parse_details after "await asyncio.gather": parse every
\* fetched page and return the records; main_async returns them.  The loop
\* of src/parser/parser_mod.py has no await and passes a page whose parse
\* raises; that of src/parser.py has no await when no page was fetched.
DetailsReturn ==
    /\ phase = "detail"
    /\ AllDone
    /\ rev = "parser_mod" \/ NextFetched(Gather(tres, arrival), 0) = 0
    /\ records' = ParseAll(Gather(tres, arrival))
    /\ phase' = "done"
    /\ UNCHANGED <<rev, pages, concurrency, semSize, sem, urls, tpc, tres,
                   tstatus, arrival, requests, rawLinks, links, parsing, NotCrawl>>

\* A step of one fetch task.
AcquireStep == \E i \in 1..Len(tpc) : Acquire(i)
SendStep == \E i \in 1..Len(tpc) : Send(i)
FinishStep == \E i \in 1..Len(tpc) : Finish(i)

-----------------------------------------------------------------------------
(* The sequential crawl of src/datasets/parser.py: parse_drom requests the *)
(* listing pages one after the other, then every link.                     *)

\* requests.get followed by raise_for_status(): the try block raises for a
\* network error and for a status of 400 and above.
DromRaises(ans) == ans.raised \/ ans.status >= 400

DromIdle ==
    /\ dromPc = "idle"
    /\ dromPages = 0
    /\ dromPage = 0
    /\ dromRaw = <<>>
    /\ dromLinks = <<>>
    /\ dromIdx = 0
    /\ dromRequests = <<>>
    /\ dromResults = <<>>

\* parse_drom(pages) is called.
DromInit ==
    /\ rev = "datasets"
    /\ dromPc = "listing"
    /\ dromPages \in 0..MaxPages
    /\ dromPage = 1
    /\ dromRaw = <<>>
    /\ dromLinks = <<>>
    /\ dromIdx = 0
    /\ dromRequests = <<>>
    /\ dromResults = <<>>

\* Listing loop, the request succeeds: the page's links are appended.  The
\* parse of the page stands outside the try: when it raises, the exception
\* leaves parse_drom.
DromListOk ==
    /\ dromPc = "listing"
    /\ dromPage <= dromPages
    /\ \E ans \in ListingAnswers :
          /\ ~DromRaises(ans)
          /\ IF ParseRaises(ans.text)
             THEN /\ dromPc' = "raised"
                  /\ UNCHANGED <<dromRaw, dromPage>>
             ELSE /\ dromRaw' = dromRaw \o ans.text.anchors
                  /\ dromPage' = dromPage + 1
                  /\ UNCHANGED dromPc
    /\ dromRequests' = Append(dromRequests, DromBase(dromPage))
    /\ UNCHANGED <<rev, dromPages, dromLinks, dromIdx, dromResults, NotDrom>>

\* Listing loop, the request fails: "break", then the links collected so
\* far are deduplicated.
DromListFail ==
    /\ dromPc = "listing"
    /\ dromPage <= dromPages
    /\ \E ans \in ListingAnswers : DromRaises(ans)
    /\ dromRequests' = Append(dromRequests, DromBase(dromPage))
    /\ dromLinks' = Dedupe(dromRaw)
    /\ dromIdx' = 1
    /\ dromPc' = "details"
    /\ UNCHANGED <<rev, dromPages, dromPage, dromRaw, dromResults, NotDrom>>

\* The listing loop ends after the last page: the links are deduplicated.
DromListEnd ==
    /\ dromPc = "listing"
    /\ dromPage > dromPages
    /\ dromLinks' = Dedupe(dromRaw)
    /\ dromIdx' = 1
    /\ dromPc' = "details"
    /\ UNCHANGED <<rev, dromPages, dromPage, dromRaw, dromRequests, dromResults,
                   NotDrom>>

\* Detail loop, one link: a failed request is skipped ("continue"), a
\* fetched page yields a record.  The parse of the page stands outside the
\* try: when it raises, the exception leaves parse_drom and the results are
\* lost.
DromDetail ==
    /\ dromPc = "details"
    /\ dromIdx <= Len(dromLinks)
    /\ \E ans \in DetailAnswers :
          IF DromRaises(ans)
          THEN /\ dromIdx' = dromIdx + 1
               /\ UNCHANGED <<dromPc, dromResults>>
          ELSE IF ParseRaises(ans.text)
          THEN /\ dromPc' = "raised"
               /\ dromResults' = <<>>
               /\ UNCHANGED dromIdx
          ELSE /\ dromResults' = Append(dromResults,
                                        [url |-> dromLinks[dromIdx], page |-> ans.text.doc])
               /\ dromIdx' = dromIdx + 1
               /\ UNCHANGED dromPc
    /\ dromRequests' = Append(dromRequests, dromLinks[dromIdx])
    /\ UNCHANGED <<rev, dromPages, dromPage, dromRaw, dromLinks, NotDrom>>

\* return results
DromReturn ==
    /\ dromPc = "details"
    /\ dromIdx > Len(dromLinks)
    /\ dromPc' = "done"
    /\ UNCHANGED <<rev, dromPages, dromPage, dromRaw, dromLinks, dromIdx,
                   dromRequests, dromResults, NotDrom>>

-----------------------------------------------------------------------------
(* Price parsing: _parse_price.  src/parser/parser_mod.py returns an       *)
(* Optional[int]; src/parser.py returns the pair (text, Optional[int]).    *)

\* An Optional value that is not None.
Some(n) == [some |-> TRUE, n |-> n]

\* "N/A"
StrNA == <<78, 47, 65>>
\* "договорн", "по запросу", "обсужд"
StrDogovorn == <<1076, 1086, 1075, 1086, 1074, 1086, 1088, 1085>>
StrPoZaprosu == <<1087, 1086, 32, 1079, 1072, 1087, 1088, 1086, 1089, 1091>>
StrObsuzhd == <<1086, 1073, 1089, 1091, 1078, 1076>>

\* \d, for the digits the model's texts use
IsDigit(c) == c \in 48..57

\* int(d) for a string of digits; int("") does not occur
RECURSIVE IntOf(_)
IntOf(d) ==
    IF d = <<>> THEN 0 ELSE IntOf(SubSeq(d, 1, Len(d) - 1)) * 10 + (d[Len(d)] - 48)

\* re.sub(r"[^\d]", "", s)
OnlyDigits(s) == SelectSeq(s, IsDigit)

\* s.replace("\u00A0", " ")
ReplaceNbsp(s) == [i \in 1..Len(s) |-> IF s[i] = 160 THEN 32 ELSE s[i]]

\* re.search(r'(договорн|по запросу|обсужд)', t, flags=re.I)
OnRequest(t) ==
    \E w \in {StrDogovorn, StrPoZaprosu, StrObsuzhd} : Contains(w, StrLower(t))

\* The end of the match of \d[\d\s]* that starts at the digit t[i].
RECURSIVE RunEnd(_, _)
RunEnd(t, i) ==
    IF i < Len(t) /\ (IsDigit(t[i + 1]) \/ IsSpace(t[i + 1]))
    THEN RunEnd(t, i + 1)
    ELSE i

\* A match of \d[\d\s]* starts at t[i]: a digit that no match starting
\* at an earlier digit has consumed.
NumStart(t, i) ==
    /\ IsDigit(t[i])
    /\ ~\E j \in 1..(i - 1) :
          IsDigit(t[j]) /\ \A k \in j..(i - 1) : IsDigit(t[k]) \/ IsSpace(t[k])

\* re.findall(r'(\d[\d\s]*)', t)
FindNums(t) ==
    LET starts == Ascending({i \in 1..Len(t) : NumStart(t, i)})
    IN  [k \in 1..Len(starts) |-> SubSeq(t, starts[k], RunEnd(t, starts[k]))]

\* [int(re.sub(r'\s+', '', n)) for n in nums]
Cleaned(nums) == [i \in 1..Len(nums) |-> IntOf(OnlyDigits(nums[i]))]

\* 1900 <= n <= 2099
IsYear(n) == 1900 <= n /\ n <= 2099

NotYear(n) == ~IsYear(n)

\* _parse_price with a slip: a largest candidate below 1000 gives way to
\* the next candidate in descending order.
_parse_price_second(text) ==
    IF text = <<>> THEN None
    ELSE LET t == ReplaceNbsp(Strip(text))
             cleaned == Cleaned(FindNums(t))
             candidates == SelectSeq(cleaned, NotYear)
             top == Max(Range(candidates))
             rest == {candidates[i] : i \in {j \in 1..Len(candidates) :
                         \E k \in 1..Len(candidates) : k # j /\ candidates[k] = top}}
         IN  IF OnRequest(t) THEN None
             ELSE IF cleaned = <<>> THEN None
             ELSE IF candidates # <<>>
                  THEN IF top < 1000 /\ Len(candidates) > 1
                       THEN Some(Max(rest))
                       ELSE Some(top)
             ELSE IF ~IsYear(cleaned[Len(cleaned)])
                  THEN Some(cleaned[Len(cleaned)])
                  ELSE None

\* _parse_price of src/parser/parser_mod.py
_parse_price_mod(text) ==
    IF text = <<>> THEN None
    ELSE LET t == ReplaceNbsp(Strip(text))
             cleaned == Cleaned(FindNums(t))
             candidates == SelectSeq(cleaned, NotYear)
             large == {c \in Range(candidates) : c >= 1000}
         IN  IF OnRequest(t) THEN None
             ELSE IF cleaned = <<>> THEN None
             ELSE IF candidates # <<>>
                  THEN IF Max(Range(candidates)) < 1000 /\ Len(candidates) > 1
                       THEN IF large # {} THEN Some(Max(large))
                            ELSE Some(Max(Range(candidates)))
                       ELSE Some(Max(Range(candidates)))
             ELSE IF ~IsYear(cleaned[Len(cleaned)])
                  THEN Some(cleaned[Len(cleaned)])
                  ELSE None

\* _parse_price of src/parser.py: (text, number)
_parse_price(text) ==
    IF text = <<>> THEN [text |-> StrNA, num |-> None]
    ELSE LET t == ReplaceNbsp(Strip(text))
             nums == FindNums(t)
         IN  IF OnRequest(t) THEN [text |-> t, num |-> None]
             ELSE IF nums = <<>> THEN [text |-> t, num |-> None]
             ELSE [text |-> t, num |-> Some(IntOf(OnlyDigits(nums[1])))]

ParsePrice(r, text) ==
    IF r = "parser_mod" THEN _parse_price_mod(text) ELSE _parse_price(text)

\* The number a revision's return value carries, or None.
PriceNumber(r, out) == IF r = "parser_mod" THEN out ELSE out.num

\* The price texts explored: a lead, a number, a separator, a number and a
\* currency sign, each possibly absent.
PriceLeads == { <<>>, <<1044, 1086, 1075, 1086, 1074, 1086, 1088, 1085, 1072, 1103, 32>>, <<1086, 1090, 32>> }
PriceNums == { <<>>, <<50, 48, 49, 56>>, <<49, 57, 48, 48>>, <<50, 48, 57, 57>>, <<50, 49, 48, 48>>, <<49, 56, 57, 57>>,
               <<53, 48, 48>>, <<52, 53>>, <<48, 48, 48>> }
PriceSeps == { <<>>, <<32>>, <<44, 32>>, <<160>> }
PriceTails == { <<>>, <<32, 8381>> }
PriceTexts ==
    { l \o a \o s \o b \o t :
        l \in PriceLeads, a \in PriceNums, s \in PriceSeps, b \in PriceNums,
        t \in PriceTails }

PriceIdle == pricePc = "idle" /\ priceText = <<>> /\ priceOut = None

\* _parse_price is called with a text.
PriceInit ==
    /\ rev \in Revisions
    /\ pricePc = "called"
    /\ priceText \in PriceTexts
    /\ priceOut = None

\* _parse_price returns.
PriceReturn ==
    /\ pricePc = "called"
    /\ pricePc' = "returned"
    /\ priceOut' = ParsePrice(rev, priceText)
    /\ UNCHANGED <<rev, priceText, NotPrice>>

-----------------------------------------------------------------------------
(* Regular-expression searches of the extractors, over texts as sequences  *)
(* of code points.  Positions past the end of a text hold no character.    *)

Ch(s, i) == IF i \in 1..Len(s) THEN s[i] ELSE -1

\* \w: letters, digits and the underscore
IsWord(c) ==
    \/ c \in 48..57 \/ c \in 65..90 \/ c \in 97..122 \/ c = 95
    \/ c \in 192..214 \/ c \in 216..246 \/ c \in 248..255
    \/ c \in 1024..1279

\* The literal lit (in lower case) matches at t[j], ignoring case.
MatchAt(lit, t, j) ==
    /\ j >= 1
    /\ j + Len(lit) - 1 <= Len(t)
    /\ StrLower(SubSeq(t, j, j + Len(lit) - 1)) = lit

\* The literal lit matches at t[j].
LitAt(lit, t, j) ==
    /\ j >= 1
    /\ j + Len(lit) - 1 <= Len(t)
    /\ SubSeq(t, j, j + Len(lit) - 1) = lit

\* The number of digits that follow from t[i] on.
RECURSIVE DigitRun(_, _)
DigitRun(t, i) == IF IsDigit(Ch(t, i)) THEN 1 + DigitRun(t, i + 1) ELSE 0

\* \s*: the first position from j on that holds no white space.
RECURSIVE SkipSpaces(_, _)
SkipSpaces(t, j) == IF IsSpace(Ch(t, j)) THEN SkipSpaces(t, j + 1) ELSE j

\* (\d{2,4})\s*UNIT matches at t[i]: the digits from t[i] on number 2 to 4
\* (a unit starts with no digit), white space may follow, then the unit.
NumUnitAt(t, i, Unit(_, _)) ==
    /\ DigitRun(t, i) \in 2..4
    /\ Unit(t, SkipSpaces(t, i + DigitRun(t, i)))

\* re.search(r'(\d{2,4})\s*UNIT', t): the start of the leftmost match, or 0.
FirstNumUnit(t, Unit(_, _)) ==
    LET S == {i \in 1..Len(t) : NumUnitAt(t, i, Unit)}
    IN  IF S = {} THEN 0 ELSE Min(S)

\* int(m.group(1)) of a match that starts at t[i]
NumAt(t, i) == IntOf(SubSeq(t, i, i + DigitRun(t, i) - 1))

-----------------------------------------------------------------------------
(* Power: _parse_power, in horsepower.                                     *)

\* "hp", "kw", "квт"
StrHp == <<104, 112>>
StrKw == <<107, 119>>
StrKvt == <<1082, 1074, 1090>>

\* (л\.?с\.?|лс|hp), flags=re.I
IsHpUnit(t, j) ==
    \/ LowerChar(Ch(t, j)) = 1083 /\ LowerChar(Ch(t, j + 1)) = 1089
    \/ LowerChar(Ch(t, j)) = 1083 /\ Ch(t, j + 1) = 46
       /\ LowerChar(Ch(t, j + 2)) = 1089
    \/ MatchAt(StrHp, t, j)

\* (kW|кВт), flags=re.I
IsKwUnit(t, j) == MatchAt(StrKw, t, j) \/ MatchAt(StrKvt, t, j)

\* л\b, flags=re.I
IsLitreUnit(t, j) == LowerChar(Ch(t, j)) = 1083 /\ ~IsWord(Ch(t, j + 1))

\* int(round(kw * 1.35962)): kw * 1.35962 is never half-way between two
\* integers for kw below 25000.
KwToHp(kw) == (kw * 135962 + 50000) \div 100000

\* _digits_int(s): the digits of s read as one number, None without digits
_digits_int(s) == IF OnlyDigits(s) = <<>> THEN None ELSE Some(IntOf(OnlyDigits(s)))

RECURSIVE DropZeros(_)
DropZeros(d) == IF d # <<>> /\ Head(d) = 48 THEN DropZeros(Tail(d)) ELSE d

\* d = _digits_int(t); "if d and 20 <= d <= 2000: return d": a number of
\* five or more significant digits is above 2000.
PowerBare(t) ==
    LET z == DropZeros(OnlyDigits(t))
    IN  IF z # <<>> /\ Len(z) <= 4 /\ IntOf(z) >= 20 /\ IntOf(z) <= 2000
        THEN Some(IntOf(z))
        ELSE None

\* _parse_power of src/parser/parser_mod.py
_parse_power_mod(t) ==
    IF t = <<>> THEN None
    ELSE IF FirstNumUnit(t, IsHpUnit) # 0
         THEN Some(NumAt(t, FirstNumUnit(t, IsHpUnit)))
    ELSE IF FirstNumUnit(t, IsKwUnit) # 0
         THEN Some(KwToHp(NumAt(t, FirstNumUnit(t, IsKwUnit))))
    ELSE PowerBare(t)

\* _parse_power of src/parser.py
_parse_power(t) ==
    IF t = <<>> THEN None
    ELSE IF FirstNumUnit(t, IsHpUnit) # 0
         THEN Some(NumAt(t, FirstNumUnit(t, IsHpUnit)))
    ELSE IF FirstNumUnit(t, IsKwUnit) # 0
         THEN Some(KwToHp(NumAt(t, FirstNumUnit(t, IsKwUnit))))
    ELSE IF FirstNumUnit(t, IsLitreUnit) # 0
         THEN Some(NumAt(t, FirstNumUnit(t, IsLitreUnit)))
    ELSE None

ParsePower(r, t) == IF r = "parser_mod" THEN _parse_power_mod(t) ELSE _parse_power(t)

-----------------------------------------------------------------------------
(* A detail page, as the element tree BeautifulSoup builds from it.  The   *)
(* page is a sequence of top-level elements [tag, cells] in document       *)
(* order; the cells are the element's texts, without surrounding white     *)
(* space.  An element stands for this markup:                              *)
(*   h1         <h1>c1</h1>                                                *)
(*   h3         <h3>c1</h3>                                                *)
(*   price      <div data-ftid="bull_price">c1</div>                       *)
(*   crumbs     <nav class="breadcrumbs"><a>c1</a><a>c2</a>...</nav>       *)
(*   meta       <meta name="description" content="c1">                     *)
(*   metaprice  <meta itemprop="price" content="c1">                       *)
(*   dt         <dl><dt>c1</dt><dd>c2</dd></dl>, or without the dd          *)
(*   tr         <table><tr><td>c1</td><td>c2</td></tr></table>             *)
(*   ul         <ul><li>c1</li><li>c2</li>...</ul>                         *)
(*   li         <ul><li>c1</li></ul>                                       *)
(*   p, span, strong, b, div   <tag>c1</tag>                               *)

El(tag, cells) == [tag |-> tag, cells |-> cells]

\* sep.join(parts)
RECURSIVE Join(_, _)
Join(sep, parts) ==
    IF parts = <<>> THEN <<>>
    ELSE IF Len(parts) = 1 THEN parts[1]
    ELSE parts[1] \o sep \o Join(sep, Tail(parts))

NonEmpty(s) == s # <<>>

\* The text nodes of an element, in document order.
TextNodes(el) ==
    IF el.tag \in {"meta", "metaprice"} THEN <<>> ELSE SelectSeq(el.cells, NonEmpty)

RECURSIVE AllTextNodes(_)
AllTextNodes(els) ==
    IF els = <<>> THEN <<>> ELSE TextNodes(Head(els)) \o AllTextNodes(Tail(els))

\* soup.get_text(sep, strip=True)
GetText(sep, els) == Join(sep, AllTextNodes(els))

\* An element's own get_text(sep, strip=True)
ElText(sep, el) == Join(sep, TextNodes(el))

\* <tag>c</tag>
Wrap(tag, c) == <<60>> \o tag \o <<62>> \o c \o <<60, 47>> \o tag \o <<62>>

RECURSIVE WrapAll(_, _)
WrapAll(tag, cs) ==
    IF cs = <<>> THEN <<>> ELSE Wrap(tag, Head(cs)) \o WrapAll(tag, Tail(cs))

\* The markup of an element.
Html(el) ==
    CASE el.tag = "price" ->
           <<60, 100, 105, 118, 32, 100, 97, 116, 97, 45, 102, 116, 105, 100, 61, 34, 98, 117, 108, 108, 95, 112, 114, 105, 99, 101, 34, 62>> \o el.cells[1] \o <<60, 47, 100, 105, 118, 62>>
      [] el.tag = "crumbs" ->
           <<60, 110, 97, 118, 32, 99, 108, 97, 115, 115, 61, 34, 98, 114, 101, 97, 100, 99, 114, 117, 109, 98, 115, 34, 62>> \o WrapAll(<<97>>, el.cells) \o <<60, 47, 110, 97, 118, 62>>
      [] el.tag = "meta" ->
           <<60, 109, 101, 116, 97, 32, 110, 97, 109, 101, 61, 34, 100, 101, 115, 99, 114, 105, 112, 116, 105, 111, 110, 34, 32, 99, 111, 110, 116, 101, 110, 116, 61, 34>> \o el.cells[1] \o <<34, 62>>
      [] el.tag = "metaprice" ->
           <<60, 109, 101, 116, 97, 32, 105, 116, 101, 109, 112, 114, 111, 112, 61, 34, 112, 114, 105, 99, 101, 34, 32, 99, 111, 110, 116, 101, 110, 116, 61, 34>> \o el.cells[1] \o <<34, 62>>
      [] el.tag = "dt" ->
           Wrap(<<100, 108>>, Wrap(<<100, 116>>, el.cells[1])
                        \o (IF Len(el.cells) >= 2 THEN Wrap(<<100, 100>>, el.cells[2])
                            ELSE <<>>))
      [] el.tag = "tr" -> Wrap(<<116, 97, 98, 108, 101>>, Wrap(<<116, 114>>, WrapAll(<<116, 100>>, el.cells)))
      [] el.tag \in {"ul", "li"} -> Wrap(<<117, 108>>, WrapAll(<<108, 105>>, el.cells))
      [] el.tag = "h1" -> Wrap(<<104, 49>>, el.cells[1])
      [] el.tag = "h3" -> Wrap(<<104, 51>>, el.cells[1])
      [] el.tag = "p" -> Wrap(<<112>>, el.cells[1])
      [] el.tag = "span" -> Wrap(<<115, 112, 97, 110>>, el.cells[1])
      [] el.tag = "strong" -> Wrap(<<115, 116, 114, 111, 110, 103>>, el.cells[1])
      [] el.tag = "b" -> Wrap(<<98>>, el.cells[1])
      [] OTHER -> Wrap(<<100, 105, 118>>, el.cells[1])

\* The page text handed to _parse_detail_from_text.
RECURSIVE PageHtml(_)
PageHtml(els) == IF els = <<>> THEN <<>> ELSE Html(Head(els)) \o PageHtml(Tail(els))

\* The li elements of a list, one element each, for the loops of
\* _parse_kv_pairs.
RECURSIVE ListItems(_)
ListItems(cs) ==
    IF cs = <<>> THEN <<>> ELSE <<El("li", <<Head(cs)>>)>> \o ListItems(Tail(cs))

RECURSIVE KvView(_)
KvView(els) ==
    IF els = <<>> THEN <<>>
    ELSE (IF Head(els).tag = "ul" THEN ListItems(Head(els).cells) ELSE <<Head(els)>>)
         \o KvView(Tail(els))

\* for k, v in kv.items(): the first entry whose key holds one of the given
\* words; 0 if no key does.
KvFind(d, words) ==
    LET S == {i \in 1..Len(d) : \E w \in words : Contains(w, d[i].k)}
    IN  IF S = {} THEN 0 ELSE Min(S)

\* The values of a Record: an int, a float (in thousandths), a bool or a
\* str; the unknown sentinel is the str "N/A".
IntV(n) == [type |-> "int", val |-> n]
FloatV(m) == [type |-> "float", val |-> m]
BoolV(b) == [type |-> "bool", val |-> b]
StrV(s) == [type |-> "str", val |-> s]
NA == StrV(StrNA)

\* Two values are the same value of the same type.
SameValue(a, b) == a.type = b.type /\ a.val = b.val

\* record[key], for a key the record holds
\* One entry of a dict.
Entry(k, v) == [k |-> k, v |-> v]

Field(rec, key) == rec[CHOOSE i \in 1..Len(rec) : rec[i].k = key].v

HasField(rec, key) == \E i \in 1..Len(rec) : rec[i].k = key

-----------------------------------------------------------------------------
(* Detail extraction: the fields of _parse_detail_from_text.               *)

\* " "
StrSpace == <<32>>

\* "power = _parse_power(...)" tested by "if power": a number other than 0
Truthy(p) == p.some /\ p.n # 0

\* power of src/parser/parser_mod.py: the first key of the dict that holds
\* 'мощн', 'л.с' or 'hp', else the page text.
PowerMod(d, els) ==
    LET i == KvFind(d, {<<1084, 1086, 1097, 1085>>, <<1083, 46, 1089>>, <<104, 112>>})
        p == IF i # 0 THEN _parse_power_mod(d[i].v) ELSE None
    IN  IF p # None THEN p ELSE _parse_power_mod(GetText(StrSpace, els))

\* The loop "power = power or _parse_power(kv[k])" of src/parser.py over the
\* entries i.. of the dict.
RECURSIVE PowerOr(_, _, _)
PowerOr(d, i, power) ==
    IF i > Len(d) THEN power
    ELSE IF \E w \in {<<1084, 1086, 1097, 1085, 1086, 1089, 1090>>, <<1083, 46, 1089, 46>>, <<1082, 1074, 1090>>} : Contains(w, d[i].k)
         THEN PowerOr(d, i + 1, IF Truthy(power) THEN power ELSE _parse_power(d[i].v))
         ELSE PowerOr(d, i + 1, power)

\* (л\.?с\.?|лс|hp|квт|kW), flags=re.I
IsPowerUnit(t, j) == IsHpUnit(t, j) \/ IsKwUnit(t, j)

\* The fallback of src/parser.py over the raw page text: the number is
\* converted if the unit, in lower case, holds 'кв'.
PowerScan(text) ==
    LET i == FirstNumUnit(text, IsPowerUnit)
        j == SkipSpaces(text, i + DigitRun(text, i))
    IN  IF i = 0 THEN None
        ELSE IF MatchAt(StrKvt, text, j) THEN Some(KwToHp(NumAt(text, i)))
        ELSE Some(NumAt(text, i))

\* power of src/parser.py: the engine entry, then the power entries, then
\* the raw page text.
Power(d, els) ==
    LET e == KvFind(d, {<<1076, 1074, 1080, 1075, 1072, 1090, 1077, 1083>>, <<1086, 1073, 1098, 1077, 1084, 32, 1076, 1074, 1080, 1075, 1072, 1090, 1077, 1083, 1103>>, <<101, 110, 103, 105, 110, 101>>})
        p0 == IF e # 0 /\ Truthy(_parse_power(d[e].v)) THEN _parse_power(d[e].v)
              ELSE None
        p1 == PowerOr(d, 1, p0)
    IN  IF p1 # None THEN p1 ELSE PowerScan(PageHtml(els))

\* "int(x) if x else 'N/A'"
IntOrNA(x) == IF Truthy(x) THEN IntV(x.n) ELSE NA

\* "x if x is not None else 'N/A'"
IntOrNAIfNone(x) == IF x # None THEN IntV(x.n) ELSE NA

\* "км", "пробег"
StrKm == <<1082, 1084>>
StrProbeg == <<1087, 1088, 1086, 1073, 1077, 1075>>

\* (\d[\d\s]{2,})\s*км, flags=re.I, matches at the digit t[i]: the run of
\* digits and white space from t[i] on has three characters or more and
\* "км" follows it.
MileageAtMod(t, i) ==
    /\ IsDigit(t[i])
    /\ RunEnd(t, i) - i + 1 >= 3
    /\ MatchAt(StrKm, t, RunEnd(t, i) + 1)

\* mileage of src/parser/parser_mod.py: the first key that holds 'пробег',
\* else the page text.
MileageMod(d, els) ==
    LET i == KvFind(d, {StrProbeg})
        m == IF i # 0 THEN _digits_int(d[i].v) ELSE None
        t == GetText(StrSpace, els)
        S == {j \in 1..Len(t) : MileageAtMod(t, j)}
    IN  IF m # None THEN m
        ELSE IF S = {} THEN None
        ELSE Some(IntOf(OnlyDigits(SubSeq(t, Min(S), RunEnd(t, Min(S))))))

\* The end of the match of \d[\d\s ]* that starts at the digit t[i];
\* \s holds U+00A0.
MileageAt(t, i) == IsDigit(t[i]) /\ LitAt(StrKm, t, RunEnd(t, i) + 1)

\* mileage of src/parser.py, a text: the value of the first key that holds
\* "пробег", else the first match of (\d[\d\s ]*км) in the raw page
\* text, else "N/A".
Mileage(d, els) ==
    LET i == KvFind(d, {StrProbeg})
        t == PageHtml(els)
        S == {j \in 1..Len(t) : MileageAt(t, j)}
    IN  IF i # 0 /\ d[i].v # <<>> THEN d[i].v
        ELSE IF S = {} THEN StrNA
        ELSE SubSeq(t, Min(S), RunEnd(t, Min(S)) + 2)

-----------------------------------------------------------------------------
(* The title: _clean_title_for_brand_model.                                *)

\* \b between t[p - 1] and t[p]
Boundary(t, p) == IsWord(Ch(t, p - 1)) # IsWord(Ch(t, p))

\* t[i:]
From(t, i) == IF i > Len(t) THEN <<>> ELSE SubSeq(t, i, Len(t))

\* t[:i]
Upto(t, i) == IF i < 1 THEN <<>> ELSE SubSeq(t, 1, i)

\* The start of the leftmost occurrence of the literal lit in t, or 0.
FindLit(lit, t) ==
    LET S == {i \in 1..Len(t) : LitAt(lit, t, i)}
    IN  IF S = {} THEN 0 ELSE Min(S)

\* "продажа", "продаю", "продается", "продам"
SaleWords == { <<1087, 1088, 1086, 1076, 1072, 1078, 1072>>, <<1087, 1088, 1086, 1076, 1072, 1102>>, <<1087, 1088, 1086, 1076, 1072, 1077, 1090, 1089, 1103>>, <<1087, 1088, 1086, 1076, 1072, 1084>> }

\* [\s\:\-–—]
IsTitleSep(c) == IsSpace(c) \/ c \in {58, 45, 8211, 8212}

RECURSIVE SkipTitleSeps(_, _)
SkipTitleSeps(t, j) == IF IsTitleSep(Ch(t, j)) THEN SkipTitleSeps(t, j + 1) ELSE j

\* re.sub(r'^\s*(продажа|продаю|продается|продам|продаю:?)\b[\s\:\-–—]*',
\*        '', t, flags=re.I)
DropSaleWord(t) ==
    LET j == SkipSpaces(t, 1)
        W == {w \in SaleWords : MatchAt(w, t, j) /\ ~IsWord(Ch(t, j + Len(w)))}
    IN  IF W = {} THEN t
        ELSE From(t, SkipTitleSeps(t, j + Len(CHOOSE w \in W : TRUE)))

\* (\b19\d{2}\b|\b20\d{2}\b) matches at t[i]
YearAt(t, i) ==
    /\ i + 3 <= Len(t)
    /\ (t[i] = 49 /\ t[i + 1] = 57) \/ (t[i] = 50 /\ t[i + 1] = 48)
    /\ IsDigit(t[i + 2]) /\ IsDigit(t[i + 3])
    /\ ~IsWord(Ch(t, i - 1))
    /\ ~IsWord(Ch(t, i + 4))

\* re.search(r'(\b19\d{2}\b|\b20\d{2}\b)', t): the start of the match, or 0
FindYear(t) ==
    LET S == {i \in 1..Len(t) : YearAt(t, i)}
    IN  IF S = {} THEN 0 ELSE Min(S)

\* re.sub(re.escape(y), '', t): every occurrence of the literal y goes.
RECURSIVE RemoveAll(_, _)
RemoveAll(y, t) ==
    IF FindLit(y, t) = 0 THEN t
    ELSE Upto(t, FindLit(y, t) - 1) \o RemoveAll(y, From(t, FindLit(y, t) + Len(y)))

\* "год"
StrGod == <<1075, 1086, 1076>>

\* \bгод\b matches at t[i], flags=re.I
GodAt(t, i) == MatchAt(StrGod, t, i) /\ ~IsWord(Ch(t, i - 1)) /\ ~IsWord(Ch(t, i + 3))

\* The first position from j on that holds '.', ',' or '-', or the end.
GodEnd(t, j) ==
    LET S == {k \in j..Len(t) : t[k] \in {46, 44, 45}}
    IN  IF S = {} THEN Len(t) + 1 ELSE Min(S)

\* re.sub(r'\bгод\b[^\.,\-]*', '', t, flags=re.I)
RECURSIVE RemoveGod(_)
RemoveGod(t) ==
    LET S == {i \in 1..Len(t) : GodAt(t, i)}
    IN  IF S = {} THEN t
        ELSE Upto(t, Min(S) - 1) \o RemoveGod(From(t, GodEnd(t, Min(S) + 3)))

\* [А-Яа-яA-Za-z\-\s]
IsPlaceChar(c) ==
    \/ c \in 1040..1103 \/ c \in 65..90 \/ c \in 97..122 \/ c = 45 \/ IsSpace(c)

\* The number of characters of [А-Яа-яA-Za-z\-\s] from t[j] on, 30 at most.
RECURSIVE PlaceRun(_, _, _)
PlaceRun(t, j, n) ==
    IF n < 30 /\ IsPlaceChar(Ch(t, j)) THEN PlaceRun(t, j + 1, n + 1) ELSE n

\* The ends of the matches of \bв\s+[А-Яа-яA-Za-z\-\s]{2,30}\b at t[i] whose
\* \s+ takes m characters: the position after the match.
PlaceEnds(t, i, m) ==
    {e \in (i + 1 + m + 2)..(i + 1 + m + PlaceRun(t, i + 1 + m, 0)) : Boundary(t, e)}

\* The numbers of white-space characters \s+ can take after the в at t[i]
\* so that the rest matches.
PlaceSpaces(t, i) ==
    {m \in 1..(SkipSpaces(t, i + 1) - (i + 1)) : PlaceEnds(t, i, m) # {}}

\* \bв\s+... matches at t[i], flags=re.I
PlaceAt(t, i) ==
    /\ LowerChar(t[i]) = 1074
    /\ ~IsWord(Ch(t, i - 1))
    /\ PlaceSpaces(t, i) # {}

\* The position after the match at t[i]: \s+ and the class are greedy.
PlaceEnd(t, i) == Max(PlaceEnds(t, i, Max(PlaceSpaces(t, i))))

\* re.sub(r'\bв\s+[А-Яа-яA-Za-z\-\s]{2,30}\b', '', t, flags=re.I)
RECURSIVE RemovePlace(_)
RemovePlace(t) ==
    LET S == {i \in 1..Len(t) : PlaceAt(t, i)}
    IN  IF S = {} THEN t
        ELSE Upto(t, Min(S) - 1) \o RemovePlace(From(t, PlaceEnd(t, Min(S))))

\* [\s,\-–—:]
IsJoinSep(c) == IsTitleSep(c) \/ c = 44

RECURSIVE DropJoinSeps(_)
DropJoinSeps(s) == IF s # <<>> /\ IsJoinSep(Head(s)) THEN DropJoinSeps(Tail(s)) ELSE s

\* re.sub(r'[\s,\-–—:]+', ' ', t)
RECURSIVE SubJoinSeps(_)
SubJoinSeps(s) ==
    IF s = <<>> THEN <<>>
    ELSE IF IsJoinSep(Head(s)) THEN <<32>> \o SubJoinSeps(DropJoinSeps(Tail(s)))
    ELSE <<Head(s)>> \o SubJoinSeps(Tail(s))

\* The year of a title, or None.
TitleYear(t) ==
    IF FindYear(t) = 0 THEN None
    ELSE Some(IntOf(SubSeq(t, FindYear(t), FindYear(t) + 3)))

\* s.split(): the words between runs of white space
RECURSIVE Split(_)
Split(s) ==
    LET t == LStrip(s)
        S == {i \in 1..Len(t) : IsSpace(t[i])}
    IN  IF t = <<>> THEN <<>>
        ELSE IF S = {} THEN <<t>>
        ELSE <<Upto(t, Min(S) - 1)>> \o Split(From(t, Min(S)))

\* main_title of _clean_title_for_brand_model, src/parser/parser_mod.py,
\* before the brand/model split
MainTitleMod(raw) ==
    LET t1 == Strip(DropSaleWord(raw))
        t2 == IF FindYear(t1) = 0 THEN t1
              ELSE RemoveAll(SubSeq(t1, FindYear(t1), FindYear(t1) + 3), t1)
    IN  Strip(SubJoinSeps(Strip(RemovePlace(RemoveGod(t2)))))

\* _clean_title_for_brand_model of src/parser/parser_mod.py:
\* (title, year)
_clean_title_for_brand_model_mod(raw) ==
    IF raw = <<>> THEN [title |-> <<>>, year |-> None]
    ELSE LET parts == Split(MainTitleMod(raw))
         IN  [title |-> IF Len(parts) >= 3
                        THEN parts[1] \o <<32>> \o parts[2] \o <<32>> \o parts[3]
                        ELSE IF Len(parts) = 2 THEN parts[1] \o <<32>> \o parts[2]
                        ELSE MainTitleMod(raw),
              year |-> TitleYear(Strip(DropSaleWord(raw)))]

\* re.sub(re.escape(y) + r'.*$', '', t): '.' matches no line break and
\* '$' matches at the end of the text or before a line break that ends it,
\* so the leftmost occurrence of the literal y with no line break after it
\* (other than one that ends the text) goes with its tail; without such an
\* occurrence t stays.
CutFromYear(y, t) ==
    LET S == {i \in 1..Len(t) :
                 /\ LitAt(y, t, i)
                 /\ \A k \in (i + Len(y))..Len(t) : t[k] = 10 => k = Len(t)}
    IN  IF S = {} THEN t
        ELSE Upto(t, Min(S) - 1) \o (IF t[Len(t)] = 10 THEN <<10>> ELSE <<>>)

\* _clean_title_for_brand_model of src/parser.py: the year and what
\* follows it on its line go, when that line is the last.
_clean_title_for_brand_model(raw) ==
    LET t1 == Strip(DropSaleWord(raw))
        t2 == IF FindYear(t1) = 0 THEN t1
              ELSE Strip(CutFromYear(SubSeq(t1, FindYear(t1), FindYear(t1) + 3), t1))
    IN  [title |-> Strip(SubJoinSeps(Strip(RemovePlace(RemoveGod(t2))))),
         year |-> TitleYear(t1)]

-----------------------------------------------------------------------------
(* Title element, brand and model.                                         *)

\* The elements with one of the given tags, in document order.
ElsOf(els, tags) == SelectSeq(els, LAMBDA el : el.tag \in tags)

\* raw_title: the text of the first h1, "" without one
RawTitle(els) ==
    IF ElsOf(els, {"h1"}) = <<>> THEN <<>> ELSE ElText(StrSpace, ElsOf(els, {"h1"})[1])

\* The texts of the breadcrumb anchors, in document order.
RECURSIVE CrumbTexts(_)
CrumbTexts(els) ==
    IF els = <<>> THEN <<>>
    ELSE (IF Head(els).tag = "crumbs" THEN Head(els).cells ELSE <<>>)
         \o CrumbTexts(Tail(els))

\* re.search(r'продажа|авто|все', t, flags=re.I)
IsSaleCrumbMod(t) ==
    \E w \in {<<1087, 1088, 1086, 1076, 1072, 1078, 1072>>, <<1072, 1074, 1090, 1086>>, <<1074, 1089, 1077>>} : Contains(w, StrLower(t))

MeaningfulMod(t) == t # <<>> /\ ~IsSaleCrumbMod(t)

\* в\s+word occurs in t, flags=re.I
InPlace(word, t) ==
    \E i \in 1..Len(t) :
        /\ LowerChar(t[i]) = 1074
        /\ IsSpace(Ch(t, i + 1))
        /\ MatchAt(word, t, SkipSpaces(t, i + 1))

\* re.search(r'продаж|прода|в\s+москв|в\s+санкт|город', x, flags=re.I)
IsSaleCrumb(t) ==
    \/ \E w \in {<<1087, 1088, 1086, 1076, 1072, 1078>>, <<1087, 1088, 1086, 1076, 1072>>, <<1075, 1086, 1088, 1086, 1076>>} : Contains(w, StrLower(t))
    \/ InPlace(<<1084, 1086, 1089, 1082, 1074>>, t)
    \/ InPlace(<<1089, 1072, 1085, 1082, 1090>>, t)

Meaningful(t) == ~IsSaleCrumb(t)

\* " ".join(parts[a:b]), a counted from 0
JoinParts(parts, a, b) ==
    Join(StrSpace, SubSeq(parts, a + 1, IF b < Len(parts) THEN b ELSE Len(parts)))

\* brand and model of src/parser/parser_mod.py: the last two meaningful
\* breadcrumbs, else the first words of the cleaned title; None is "".
BrandModelMod(els) ==
    LET m == SelectSeq(CrumbTexts(els), MeaningfulMod)
        parts == Split(_clean_title_for_brand_model_mod(RawTitle(els)).title)
    IN  IF Len(m) >= 2 THEN [brand |-> m[Len(m) - 1], model |-> m[Len(m)]]
        ELSE IF parts = <<>> THEN [brand |-> <<>>, model |-> <<>>]
        ELSE [brand |-> parts[1],
              model |-> IF Len(parts) > 1 THEN JoinParts(parts, 1, 3) ELSE <<>>]

\* brand and model of src/parser.py: the first two breadcrumbs that are
\* kept, else the words of the cleaned title.
BrandModel(els) ==
    LET f == SelectSeq(CrumbTexts(els), Meaningful)
        parts == Split(_clean_title_for_brand_model(RawTitle(els)).title)
        rest == IF Len(parts) > 1 THEN JoinParts(parts, 1, Len(parts)) ELSE StrNA
        c == IF Len(f) >= 2 THEN [brand |-> f[1], model |-> f[2]]
             ELSE IF Len(f) = 1 THEN [brand |-> f[1], model |-> rest]
             ELSE [brand |-> StrNA, model |-> StrNA]
    IN  IF (c.brand = StrNA \/ c.model = StrNA) /\ parts # <<>>
        THEN [brand |-> parts[1], model |-> rest]
        ELSE c

\* "x or 'N/A'" for a str x
StrOrNA(s) == IF s = <<>> THEN NA ELSE StrV(s)

-----------------------------------------------------------------------------
(* Generation and restyling: _extract_generation.                          *)

\* "поколен"
StrPokolen == <<1087, 1086, 1082, 1086, 1083, 1077, 1085>>

\* [ivx\d], flags=re.I
IsGenChar(c) == IsDigit(c) \/ LowerChar(c) \in {105, 118, 120}

\* [IVX]
IsRoman(c) == c \in {73, 86, 88}

\* [:\s\-–—] is the class of the title separators.
\* The position after "поколен", and after "ие" if it follows.
GenWordEnd(t, i) == IF MatchAt(<<1080, 1077>>, t, i + 7) THEN i + 9 ELSE i + 7

\* поколен(?:ие)?[:\s\-–—]{0,3}([ivx\d]+) matches at t[i], flags=re.I
GenAt(t, i) ==
    /\ MatchAt(StrPokolen, t, i)
    /\ SkipTitleSeps(t, GenWordEnd(t, i)) - GenWordEnd(t, i) <= 3
    /\ IsGenChar(Ch(t, SkipTitleSeps(t, GenWordEnd(t, i))))

RECURSIVE GenRunEnd(_, _)
GenRunEnd(t, j) == IF IsGenChar(Ch(t, j + 1)) THEN GenRunEnd(t, j + 1) ELSE j

RECURSIVE RomanRun(_, _)
RomanRun(t, j) == IF IsRoman(Ch(t, j)) THEN 1 + RomanRun(t, j + 1) ELSE 0

\* \b([IVX]{2,5})\b matches at t[i]
RomanAt(t, i) ==
    /\ ~IsWord(Ch(t, i - 1))
    /\ RomanRun(t, i) \in 2..5
    /\ ~IsWord(Ch(t, i + RomanRun(t, i)))

\* The generation the title gives, src/parser/parser_mod.py; "" if none.
TitleGenMod(t) ==
    LET G == {i \in 1..Len(t) : GenAt(t, i)}
        R == {i \in 1..Len(t) : RomanAt(t, i)}
        j == SkipTitleSeps(t, GenWordEnd(t, Min(G)))
    IN  IF G # {} THEN SubSeq(t, j, GenRunEnd(t, j))
        ELSE IF R # {} THEN SubSeq(t, Min(R), Min(R) + RomanRun(t, Min(R)) - 1)
        ELSE <<>>

\* re.search(r'рестайлинг|рестайлингом|restyling', title, flags=re.I)
TitleRestyling(t) ==
    \E w \in {<<1088, 1077, 1089, 1090, 1072, 1081, 1083, 1080, 1085, 1075>>, <<114, 101, 115, 116, 121, 108, 105, 110, 103>>} : Contains(w, StrLower(t))

\* The loop over kv.items(): every generation key assigns gen, the last
\* one stays.
GenKeyMod(k) == \E w \in {<<1087, 1086, 1082, 1086, 1083>>, <<1087, 1086, 1082, 1086, 1083, 1077, 1085>>, <<103, 101, 110, 101, 114, 97, 116, 105, 111, 110>>} : Contains(w, k)

KvGenMod(d, gen) ==
    LET S == {i \in 1..Len(d) : GenKeyMod(d[i].k)}
    IN  IF S = {} THEN gen ELSE d[Max(S)].v

\* re.search(r'да|есть|yes|rest', str(v), flags=re.I)
SaysYes(v) == \E w \in {<<1076, 1072>>, <<1077, 1089, 1090, 1100>>, <<121, 101, 115>>, <<114, 101, 115, 116>>} : Contains(w, StrLower(v))

KvRestyling(d) ==
    \E i \in 1..Len(d) :
        /\ \E w \in {<<1088, 1077, 1089, 1090, 1072, 1081, 1083>>, <<114, 101, 115, 116, 121, 108>>} : Contains(w, d[i].k)
        /\ SaysYes(d[i].v)

\* _extract_generation of src/parser/parser_mod.py: (generation, restyling),
\* None is ""
_extract_generation_mod(title, d) ==
    [gen |-> Strip(KvGenMod(d, IF title = <<>> THEN <<>> ELSE TitleGenMod(title))),
     restyling |-> (title # <<>> /\ TitleRestyling(title)) \/ KvRestyling(d)]

\* The position of the first ')' after t[i], or 0.
CloseParen(t, i) ==
    LET S == {c \in (i + 1)..Len(t) : t[c] = 41}
    IN  IF S = {} THEN 0 ELSE Min(S)

\* s ends with the literal lit, ignoring case, after at least one character
EndsWithAfter(lit, s) ==
    Len(s) > Len(lit) /\ MatchAt(lit, s, Len(s) - Len(lit) + 1)

\* \(([^)]+поколен|[^)]+ поколение|[IVX]{1,4})\) matches at the '(' t[i],
\* flags=re.I
ParenGenAt(t, i) ==
    /\ t[i] = 40
    /\ CloseParen(t, i) # 0
    /\ LET c == SubSeq(t, i + 1, CloseParen(t, i) - 1)
       IN  \/ EndsWithAfter(StrPokolen, c)
           \/ EndsWithAfter(<<32, 1087, 1086, 1082, 1086, 1083, 1077, 1085, 1080, 1077>>, c)
           \/ Len(c) \in 1..4 /\ \A k \in 1..Len(c) : IsRoman(c[k] - (IF c[k] >= 97 THEN 32 ELSE 0))

\* _extract_generation of src/parser.py, a str
_extract_generation(title, d) ==
    LET P == {i \in 1..Len(title) : ParenGenAt(title, i)}
        k1 == KvFind(d, {StrPokolen, <<1087, 1086, 1082, 1086, 1083, 1077, 1085, 1080, 1077>>, <<1087, 1086, 1082, 1086, 1083, 1077, 1085, 1080>>})
        k2 == KvFind(d, {<<103, 101, 110, 101, 114, 97, 116, 105, 111, 110>>})
    IN  IF title = <<>> THEN StrNA
        ELSE IF P # {} THEN Strip(SubSeq(title, Min(P) + 1, CloseParen(title, Min(P)) - 1))
        ELSE IF k1 # 0 THEN d[k1].v
        ELSE IF k2 # 0 THEN d[k2].v
        ELSE StrNA

-----------------------------------------------------------------------------
(* Engine: _parse_engine gives the fuel and the displacement in litres.    *)
(* A float is held in thousandths.                                         *)

HasAny(words, s) == \E w \in words : Contains(w, s)

\* The fuel of a lower-case engine text, "" for None.
Fuel(s) ==
    IF HasAny({<<1073, 1077, 1085, 1079, 1080, 1085>>, <<112, 101, 116, 114, 111, 108>>, <<103, 97, 115, 111, 108, 105, 110, 101>>}, s) THEN <<98, 101, 110, 122, 105, 110, 101>>
    ELSE IF HasAny({<<1076, 1080, 1079, 1077, 1083>>, <<1076, 1080, 1079, 1077, 1083, 1100>>, <<100, 105, 101, 115, 101, 108>>}, s) THEN <<100, 105, 101, 115, 101, 108>>
    ELSE IF HasAny({<<1101, 1083, 1077, 1082, 1090, 1088>>, <<101, 108, 101, 99, 116, 114, 105, 99>>}, s) THEN <<101, 108, 101, 99, 116, 114, 105, 99>>
    ELSE IF HasAny({<<1075, 1080, 1073, 1088, 1080, 1076>>, <<104, 121, 98, 114, 105, 100>>}, s) THEN <<104, 121, 98, 114, 105, 100>>
    ELSE IF HasAny({<<108, 112, 103>>, <<1075, 1072, 1079>>}, s) THEN <<103, 97, 115>>
    ELSE <<>>

\* The position after \d+[.,]?\d* that starts at the digit s[i].
LitresEnd(s, i) ==
    LET p == i + DigitRun(s, i)
    IN  IF Ch(s, p) \in {46, 44} THEN p + 1 + DigitRun(s, p + 1) ELSE p

\* (\d+[.,]?\d*)\s*(л|l)\b matches at s[i]
LitresAt(s, i) ==
    /\ IsDigit(s[i])
    /\ Ch(s, SkipSpaces(s, LitresEnd(s, i))) \in {1083, 108}
    /\ ~IsWord(Ch(s, SkipSpaces(s, LitresEnd(s, i)) + 1))

\* The first three digits of a fraction, in thousandths.
Thousandths(f) ==
    IntOf(SubSeq(f \o <<48, 48, 48>>, 1, 3))

\* float(g.replace(',', '.')) for g = digits[.,]digits, in thousandths; a
\* fourth decimal and beyond is not held.
FloatOf(s, i) ==
    LET p == i + DigitRun(s, i)
    IN  IntOf(SubSeq(s, i, p - 1)) * 1000
        + (IF Ch(s, p) \in {46, 44}
           THEN Thousandths(SubSeq(s, p + 1, p + DigitRun(s, p + 1)))
           ELSE 0)

\* "см"
StrSm == <<1089, 1084>>

\* (\d{3,4})\s*см matches at s[i]
CcAt(s, i) ==
    /\ DigitRun(s, i) \in 3..4
    /\ LitAt(StrSm, s, SkipSpaces(s, i + DigitRun(s, i)))

\* _parse_engine(engine_text): [fuel, vol]; None is "" for the fuel and
\* None for the volume.
_parse_engine(text) ==
    LET s == StrLower(text)
        L == {i \in 1..Len(s) : LitresAt(s, i)}
        C == {i \in 1..Len(s) : CcAt(s, i)}
    IN  IF text = <<>> THEN [fuel |-> <<>>, vol |-> None]
        ELSE [fuel |-> Fuel(s),
              vol |-> IF L # {} THEN Some(FloatOf(s, Min(L)))
                      ELSE IF C # {} THEN Some(NumAt(s, Min(C)))
                      ELSE None]

\* content of the first <meta name="description">, "" without one
MetaContent(els, tag) ==
    IF ElsOf(els, {tag}) = <<>> THEN <<>> ELSE ElsOf(els, {tag})[1].cells[1]

\* engine_text of src/parser/parser_mod.py: the first key that holds
\* 'объем', 'двигател' or 'engine', else the meta description
EngineTextMod(d, els) ==
    LET i == KvFind(d, {<<1086, 1073, 1098, 1077, 1084>>, <<1076, 1074, 1080, 1075, 1072, 1090, 1077, 1083>>, <<101, 110, 103, 105, 110, 101>>})
    IN  IF i # 0 /\ d[i].v # <<>> THEN d[i].v ELSE MetaContent(els, "meta")

\* "float(x) if x else 'N/A'"
FloatOrNA(x) == IF Truthy(x) THEN FloatV(x.n) ELSE NA

\* The value of the first key that holds one of the words, "" without one.
KvValue(d, words) == IF KvFind(d, words) = 0 THEN <<>> ELSE d[KvFind(d, words)].v

-----------------------------------------------------------------------------
(* Drive, body type and steering: a key of the dict, else a word of the    *)
(* page text.                                                              *)

\* \b(w1|w2|...)\b matches at t[i], flags=re.I: the word that matches there
WordsAt(t, i, words) ==
    {w \in words : /\ MatchAt(w, t, i)
                   /\ ~IsWord(Ch(t, i - 1))
                   /\ ~IsWord(Ch(t, i + Len(w)))}

\* m.group(1) of re.search(r'\b(w1|w2|...)\b', t, flags=re.I), "" without
\* a match
FirstWord(t, words) ==
    LET S == {i \in 1..Len(t) : WordsAt(t, i, words) # {}}
    IN  IF S = {} THEN <<>>
        ELSE SubSeq(t, Min(S), Min(S) + Len(CHOOSE w \in WordsAt(t, Min(S), words) : TRUE) - 1)

DriveWords ==
    { <<1087, 1077, 1088, 1077, 1076, 1085, 1080, 1081>>, <<1087, 1077, 1088, 1077, 1076>>, <<1087, 1086, 1083, 1085>>, <<1087, 1086, 1083, 1085, 1099, 1081>>, <<1079, 1072, 1076, 1085, 1080, 1081>>, <<52, 120, 52>>,
      <<97, 119, 100>>, <<102, 119, 100>>, <<114, 119, 100>> }

\* drive of src/parser/parser_mod.py
DriveMod(d, els) ==
    IF KvValue(d, {<<1087, 1088, 1080, 1074, 1086, 1076>>}) # <<>> THEN KvValue(d, {<<1087, 1088, 1080, 1074, 1086, 1076>>})
    ELSE FirstWord(GetText(StrSpace, els), DriveWords)

BodyWords ==
    { <<1089, 1077, 1076, 1072, 1085>>, <<1093, 1101, 1090, 1095, 1073, 1077, 1082>>, <<1093, 1101, 1090, 1095>>, <<1091, 1085, 1080, 1074, 1077, 1088, 1089, 1072, 1083>>, <<1091, 1085, 1080, 1074, 1077, 1088, 1072, 1083>>,
      <<1091, 1085, 1080, 1074, 1077, 1088, 1089>>, <<1074, 1085, 1077, 1076, 1086, 1088, 1086, 1078, 1085, 1080, 1082>>, <<1076, 1078, 1080, 1087>>, <<1082, 1091, 1087, 1077>>, <<1084, 1080, 1085, 1080, 1074, 1101, 1085>>,
      <<1084, 1080, 1085, 1080, 1074, 1077, 1085>>, <<1092, 1091, 1088, 1075, 1086, 1085>>, <<1087, 1080, 1082, 1072, 1087>>, <<1082, 1072, 1073, 1088, 1080, 1086, 1083, 1077, 1090>>, <<1082, 1072, 1073, 1088, 1110, 1086, 1083, 1077, 1090>>,
      <<1083, 1080, 1092, 1090, 1073, 1077, 1082>>, <<1083, 1080, 1084, 1091, 1079, 1080, 1085>>, <<1088, 1086, 1076, 1089, 1090, 1077, 1088>> }

\* The dict "mapping", in insertion order.
BodyMapping ==
    << Entry(<<1093, 1101, 1090, 1095>>, <<1093, 1101, 1090, 1095, 1073, 1077, 1082>>), Entry(<<1093, 1101, 1090, 1095, 1073, 1077, 1082>>, <<1093, 1101, 1090, 1095, 1073, 1077, 1082>>),
       Entry(<<1089, 1077, 1076, 1072, 1085>>, <<1089, 1077, 1076, 1072, 1085>>), Entry(<<1091, 1085, 1080, 1074, 1077, 1088, 1089, 1072, 1083>>, <<1091, 1085, 1080, 1074, 1077, 1088, 1089, 1072, 1083>>),
       Entry(<<1091, 1085, 1080, 1074, 1077, 1088, 1089>>, <<1091, 1085, 1080, 1074, 1077, 1088, 1089, 1072, 1083>>), Entry(<<1091, 1085, 1080, 1074, 1077, 1088, 1072, 1083>>, <<1091, 1085, 1080, 1074, 1077, 1088, 1089, 1072, 1083>>),
       Entry(<<1074, 1085, 1077, 1076, 1086, 1088, 1086, 1078, 1085, 1080, 1082>>, <<1074, 1085, 1077, 1076, 1086, 1088, 1086, 1078, 1085, 1080, 1082>>), Entry(<<1076, 1078, 1080, 1087>>, <<1074, 1085, 1077, 1076, 1086, 1088, 1086, 1078, 1085, 1080, 1082>>),
       Entry(<<1082, 1091, 1087, 1077>>, <<1082, 1091, 1087, 1077>>), Entry(<<1084, 1080, 1085, 1080, 1074, 1101, 1085>>, <<1084, 1080, 1085, 1080, 1074, 1101, 1085>>),
       Entry(<<1084, 1080, 1085, 1080, 1074, 1077, 1085>>, <<1084, 1080, 1085, 1080, 1074, 1101, 1085>>), Entry(<<1092, 1091, 1088, 1075, 1086, 1085>>, <<1092, 1091, 1088, 1075, 1086, 1085>>),
       Entry(<<1087, 1080, 1082, 1072, 1087>>, <<1087, 1080, 1082, 1072, 1087>>), Entry(<<1082, 1072, 1073, 1088, 1080, 1086, 1083, 1077, 1090>>, <<1082, 1072, 1073, 1088, 1080, 1086, 1083, 1077, 1090>>),
       Entry(<<1083, 1080, 1092, 1090, 1073, 1077, 1082>>, <<1083, 1080, 1092, 1090, 1073, 1077, 1082>>), Entry(<<1083, 1080, 1084, 1091, 1079, 1080, 1085>>, <<1083, 1080, 1084, 1091, 1079, 1080, 1085>>),
       Entry(<<1088, 1086, 1076, 1089, 1090, 1077, 1088>>, <<1088, 1086, 1076, 1089, 1090, 1077, 1088>>) >>

\* [а-яa-z0-9\- ]
IsBodyChar(c) ==
    c \in 1072..1103 \/ c \in 97..122 \/ c \in 48..57 \/ c = 45 \/ c = 32

\* The normalisation of a body type that is not "".
NormalizeBody(body) ==
    LET bt == SelectSeq(Strip(StrLower(body)), IsBodyChar)
        E == {i \in 1..Len(BodyMapping) : BodyMapping[i].k = bt}
        C == {i \in 1..Len(BodyMapping) : Contains(BodyMapping[i].k, bt)}
    IN  IF E # {} THEN BodyMapping[Min(E)].v
        ELSE IF C # {} THEN BodyMapping[Min(C)].v
        ELSE body

\* body_type of src/parser/parser_mod.py
BodyMod(d, els) ==
    LET v == KvValue(d, {<<1082, 1091, 1079, 1086, 1074>>, <<1090, 1080, 1087, 32, 1082, 1091, 1079, 1086, 1074, 1072>>, <<98, 111, 100, 121>>})
        b == IF v # <<>> THEN v
             ELSE StrLower(FirstWord(GetText(StrSpace, els), BodyWords))
    IN  IF b = <<>> THEN <<>> ELSE NormalizeBody(b)

\* steering of src/parser/parser_mod.py
SteeringMod(d, els) ==
    IF KvValue(d, {<<1088, 1091, 1083, 1100>>, <<1088, 1091, 1083>>}) # <<>> THEN KvValue(d, {<<1088, 1091, 1083, 1100>>, <<1088, 1091, 1083>>})
    ELSE FirstWord(GetText(StrSpace, els), {<<1083, 1077, 1074, 1099, 1081>>, <<1087, 1088, 1072, 1074, 1099, 1081>>})

\* (правый|левый)\s+руль matches at t[i], flags=re.I
WheelAt(t, i) ==
    \E w \in {<<1087, 1088, 1072, 1074, 1099, 1081>>, <<1083, 1077, 1074, 1099, 1081>>} :
        /\ MatchAt(w, t, i)
        /\ IsSpace(Ch(t, i + Len(w)))
        /\ MatchAt(<<1088, 1091, 1083, 1100>>, t, SkipSpaces(t, i + Len(w)))

\* steering of src/parser.py
Steering(d, els) ==
    LET v == KvValue(d, {<<1088, 1091, 1083, 1100>>, <<1088, 1072, 1089, 1087, 1086, 1083, 1086, 1078, 1077, 1085>>})
        t == PageHtml(els)
        S == {i \in 1..Len(t) : WheelAt(t, i)}
    IN  IF v # <<>> THEN v
        ELSE IF S = {} THEN StrNA
        ELSE StrLower(SubSeq(t, Min(S), Min(S) + (IF MatchAt(<<1083, 1077, 1074, 1099, 1081>>, t, Min(S)) THEN 4 ELSE 5)))

\* owners of src/parser/parser_mod.py
OwnersMod(d) ==
    LET i == KvFind(d, {<<1074, 1083, 1072, 1076, 1077, 1083, 1100, 1094>>, <<1074, 1083, 1072, 1076, 1077, 1083, 1100, 1094, 1077, 1074>>})
    IN  IF i = 0 THEN None ELSE _digits_int(d[i].v)

\* owners of src/parser.py, a Record value: "_digits_int(kv[k]) or kv[k]",
\* "N/A" without the key
Owners(d) ==
    LET i == KvFind(d, {<<1074, 1083, 1072, 1076, 1077, 1083, 1100, 1094>>})
    IN  IF i = 0 THEN NA
        ELSE IF Truthy(_digits_int(d[i].v)) THEN IntV(_digits_int(d[i].v).n)
        ELSE StrV(d[i].v)

\* price of src/parser/parser_mod.py: the price element, else the price
\* meta tag, else the page text
PriceMod(els) ==
    LET p1 == IF ElsOf(els, {"price"}) = <<>> THEN None
              ELSE _parse_price_mod(ElText(StrSpace, ElsOf(els, {"price"})[1]))
        p2 == IF p1 # None THEN p1
              ELSE IF MetaContent(els, "metaprice") # <<>>
                   THEN _parse_price_mod(MetaContent(els, "metaprice"))
              ELSE None
    IN  IF p2 # None THEN p2 ELSE _parse_price_mod(GetText(StrSpace, els))

\* price and price_num of src/parser.py: the price element's text
PriceText(els) ==
    IF ElsOf(els, {"price"}) = <<>> THEN <<>>
    ELSE ElText(StrSpace, ElsOf(els, {"price"})[1])

-----------------------------------------------------------------------------
(* Equipment: _extract_equipment.                                           *)

\* The cap of the equipment text, and the title length below which
\* src/parser/parser_mod.py takes the title for it.
EquipmentCap == 2000
TitleLimit == 200

\* " \n", "; "
StrSpaceNl == <<32, 10>>
StrSemi == <<59, 32>>

\* "комплектац", "оборудовани", "комплектация"
StrKomplektac == <<1082, 1086, 1084, 1087, 1083, 1077, 1082, 1090, 1072, 1094>>
StrOborudovani == <<1086, 1073, 1086, 1088, 1091, 1076, 1086, 1074, 1072, 1085, 1080>>
StrKomplektacia == <<1082, 1086, 1084, 1087, 1083, 1077, 1082, 1090, 1072, 1094, 1080, 1103>>

\* [:\s\-–—]
IsEquipSep(c) == c \in {58, 45, 8211, 8212} \/ IsSpace(c)

\* How many of the three characters from t[p] on are separators in a row.
SepRun(t, p) ==
    IF ~(p <= Len(t) /\ IsEquipSep(t[p])) THEN 0
    ELSE IF ~(p + 1 <= Len(t) /\ IsEquipSep(t[p + 1])) THEN 1
    ELSE IF ~(p + 2 <= Len(t) /\ IsEquipSep(t[p + 2])) THEN 2
    ELSE 3

\* The length of the run of [^\n] from t[p] on.
LineRun(t, p) ==
    LET S == {j \in p..Len(t) : t[j] = 10}
    IN  IF p > Len(t) THEN 0
        ELSE IF S = {} THEN Len(t) - p + 1
        ELSE Min(S) - p

\* The separators the match takes at t[p]: the most, up to three, that
\* leave five characters of the line.
SepsTaken(t, p) == {k \in 0..SepRun(t, p) : LineRun(t, p + k) >= 5}

\* Комплектация[:\s\-–—]{0,3}([^\n]{5,2000}), flags=re.I, matches at t[i]
EquipAt(t, i) ==
    MatchAt(StrKomplektacia, t, i) /\ SepsTaken(t, i + Len(StrKomplektacia)) # {}

\* m.group(1) of the match at t[i]
EquipGroup(t, i) ==
    LET p == i + Len(StrKomplektacia) + Max(SepsTaken(t, i + Len(StrKomplektacia)))
        n == IF LineRun(t, p) > EquipmentCap THEN EquipmentCap ELSE LineRun(t, p)
    IN  SubSeq(t, p, p + n - 1)

\* m.group(1) of the search in the page text, "" without a match
EquipSearch(els) ==
    LET t == GetText(StrSpaceNl, els)
        S == {i \in 1..Len(t) : EquipAt(t, i)}
    IN  IF S = {} THEN <<>> ELSE EquipGroup(t, Min(S))

\* The headers of _extract_equipment, src/parser/parser_mod.py: h2, h3, h4
\* with "комплектац" or "оборудовани" in the text, and a next sibling
EquipHeadsMod(els) ==
    {i \in 1..(Len(els) - 1) :
        /\ els[i].tag \in {"h2", "h3", "h4"}
        /\ \/ Contains(StrKomplektac, StrLower(ElText(StrSpace, els[i])))
           \/ Contains(StrOborudovani, StrLower(ElText(StrSpace, els[i])))}

\* _extract_equipment of src/parser/parser_mod.py, "" for None: the text
\* of the element after the header, as it is; else the match in the page
\* text
_extract_equipment_mod(els) ==
    IF EquipHeadsMod(els) # {}
    THEN ElText(StrSpaceNl, els[Min(EquipHeadsMod(els)) + 1])
    ELSE Strip(EquipSearch(els))

\* equipment of src/parser/parser_mod.py: a short title stands in for an
\* equipment that was not found
EquipmentMod(els) ==
    IF _extract_equipment_mod(els) # <<>> THEN _extract_equipment_mod(els)
    ELSE IF RawTitle(els) # <<>> /\ Len(RawTitle(els)) < TitleLimit THEN RawTitle(els)
    ELSE <<>>

\* re.sub(r'\s+', ' ', s)
Collapse(s) ==
    LET marked == [i \in 1..Len(s) |->
                      [c |-> s[i], first |-> i = 1 \/ ~IsSpace(s[i - 1])]]
        kept == SelectSeq(marked, LAMBDA m : ~IsSpace(m.c) \/ m.first)
    IN  [i \in 1..Len(kept) |-> IF IsSpace(kept[i].c) THEN 32 ELSE kept[i].c]

IsHeading(el) == el.tag \in {"h1", "h2", "h3", "h4", "h5", "h6"}

\* The headers of _extract_equipment, src/parser.py, in document order.
EquipHeads(els) ==
    {i \in 1..Len(els) :
        /\ IsHeading(els[i])
        /\ Contains(StrKomplektac, StrLower(ElText(StrSpace, els[i])))}

\* h.find_next_sibling(["ul", "ol"]): the position of the list, or 0
NextList(els, i) ==
    LET S == {j \in (i + 1)..Len(els) : els[j].tag \in {"ul", "li"}}
    IN  IF S = {} THEN 0 ELSE Min(S)

\* The siblings after the header els[i], up to the next heading.
Block(els, i) ==
    LET S == {j \in (i + 1)..Len(els) : IsHeading(els[j])}
        e == IF S = {} THEN Len(els) ELSE Min(S) - 1
    IN  SubSeq(els, i + 1, e)

\* " ".join(txt_block).strip(), white space collapsed
BlockText(els, i) ==
    LET b == Block(els, i)
    IN  Collapse(Strip(Join(StrSpace, [j \in 1..Len(b) |-> ElText(StrSpace, b[j])])))

\* re.split(r'[;,]\s*', g), each item stripped; the white space after a
\* separator goes with the strip
RECURSIVE SplitItems(_)
SplitItems(g) ==
    LET S == {i \in 1..Len(g) : g[i] \in {59, 44}}
    IN  IF S = {} THEN <<Strip(g)>>
        ELSE <<Strip(SubSeq(g, 1, Min(S) - 1))>>
             \o SplitItems(SubSeq(g, Min(S) + 1, Len(g)))

\* The loop over the headers hs, then the search in the page text.
RECURSIVE EquipFrom(_, _)
EquipFrom(els, hs) ==
    IF hs = <<>>
    THEN IF EquipSearch(els) = <<>> THEN StrNA
         ELSE Prefix(Join(StrSemi, SelectSeq(SplitItems(EquipSearch(els)), NonEmpty)),
                     EquipmentCap)
    ELSE LET i == Head(hs)
             u == NextList(els, i)
         IN  IF u # 0 /\ els[u].cells # <<>> THEN Join(StrSemi, els[u].cells)
             ELSE IF BlockText(els, i) # <<>> THEN Prefix(BlockText(els, i), EquipmentCap)
             ELSE EquipFrom(els, Tail(hs))

\* _extract_equipment of src/parser.py
_extract_equipment(els) == EquipFrom(els, Ascending(EquipHeads(els)))

-----------------------------------------------------------------------------
(* Detail extraction: _parse_detail_from_text builds the Record, a dict.   *)
(* The dict is the sequence of its [k, v] entries in insertion order.      *)

\* _parse_detail_from_text of src/parser/parser_mod.py
_parse_detail_from_text_mod(href, els) ==
    LET d == _parse_kv_pairs("parser_mod", KvView(els))
        g == _extract_generation_mod(RawTitle(els), d)
        e == _parse_engine(EngineTextMod(d, els))
    IN  << Entry("url", StrV(href)),
           Entry("brand", StrOrNA(BrandModelMod(els).brand)),
           Entry("model", StrOrNA(BrandModelMod(els).model)),
           Entry("year", IntOrNA(_clean_title_for_brand_model_mod(RawTitle(els)).year)),
           Entry("generation", StrOrNA(g.gen)),
           Entry("restyling", BoolV(g.restyling)),
           Entry("price", IntOrNA(PriceMod(els))),
           Entry("engine_volume", FloatOrNA(e.vol)),
           Entry("fuel_t", StrOrNA(e.fuel)),
           Entry("power_hp", IntOrNA(PowerMod(d, els))),
           Entry("transmission", StrOrNA(KvValue(d, {<<1082, 1086, 1088, 1086, 1073>>, <<116, 114, 97, 110, 115, 109, 105, 115, 115>>}))),
           Entry("drive", StrOrNA(DriveMod(d, els))),
           Entry("body-type", StrOrNA(BodyMod(d, els))),
           Entry("mileage", IntOrNA(MileageMod(d, els))),
           Entry("owners", IntOrNA(OwnersMod(d))),
           Entry("steering", StrOrNA(SteeringMod(d, els))),
           Entry("equipment", StrOrNA(EquipmentMod(els))) >>

\* _parse_detail_from_text of src/parser.py
_parse_detail_from_text(href, els) ==
    LET d == _parse_kv_pairs("parser", KvView(els))
        p == _parse_price(PriceText(els))
    IN  << Entry("brand", StrOrNA(BrandModel(els).brand)),
           Entry("model", StrOrNA(BrandModel(els).model)),
           Entry("year", IntOrNAIfNone(_clean_title_for_brand_model(RawTitle(els)).year)),
           Entry("generation", StrOrNA(_extract_generation(RawTitle(els), d))),
           Entry("price", StrOrNA(p.text)),
           Entry("price_num", IntOrNAIfNone(p.num)),
           Entry("engine", StrOrNA(KvValue(d, {<<1076, 1074, 1080, 1075, 1072, 1090, 1077, 1083>>, <<1086, 1073, 1098, 1077, 1084, 32, 1076, 1074, 1080, 1075, 1072, 1090, 1077, 1083, 1103>>, <<101, 110, 103, 105, 110, 101>>}))),
           Entry("power_l_s", IntOrNAIfNone(Power(d, els))),
           Entry("transmission", StrOrNA(KvValue(d, {<<1082, 1086, 1088, 1086, 1073>>, <<1090, 1088, 1072, 1085, 1089, 1084, 1080, 1089, 1089, 1080>>}))),
           Entry("drive", StrOrNA(KvValue(d, {<<1087, 1088, 1080, 1074, 1086, 1076>>}))),
           Entry("body_type", StrOrNA(KvValue(d, {<<1082, 1091, 1079, 1086, 1074>>, <<1090, 1080, 1087, 32, 1082, 1091, 1079, 1086, 1074, 1072>>}))),
           Entry("mileage", StrOrNA(Mileage(d, els))),
           Entry("owners_count", Owners(d)),
           Entry("steering", StrV(Steering(d, els))),
           Entry("equipment", StrOrNA(_extract_equipment(els))) >>

ParseDetail(r, href, els) ==
    IF r = "parser_mod" THEN _parse_detail_from_text_mod(href, els)
    ELSE _parse_detail_from_text(href, els)

\* Number of elements of a detail page.
MaxParts == 2

\* "https://auto.drom.ru/toyota/camry/1.html"
DetHref == <<104, 116, 116, 112, 115, 58, 47, 47, 97, 117, 116, 111, 46, 100, 114, 111, 109, 46, 114, 117, 47, 116, 111, 121, 111, 116, 97, 47, 99, 97, 109, 114, 121, 47, 49, 46, 104, 116, 109, 108>>

\* An equipment text one character above the cap.
LongText == [i \in 1..(EquipmentCap + 1) |-> 1072]

\* The elements of the detail pages explored.
DetElements ==
    { El("dt", << <<1052, 1086, 1097, 1085, 1086, 1089, 1090, 1100>>, <<49, 53, 48, 32, 1082, 1042, 1090>> >>),
      El("dt", << <<1052, 1086, 1097, 1085, 1086, 1089, 1090, 1100>>, <<49, 53, 48, 32, 107, 87>> >>),
      El("tr", << <<1052, 1086, 1097, 1085, 1086, 1089, 1090, 1100, 44, 32, 1083, 46, 1089, 46>>, <<49, 53, 48>> >>),
      El("dt", << <<1044, 1074, 1080, 1075, 1072, 1090, 1077, 1083, 1100>>, <<50, 46, 48, 32, 1083, 44, 32, 49, 49, 48, 32, 1082, 1042, 1090>> >>),
      El("div", << <<1044, 1080, 1079, 1077, 1083, 1100, 32, 57, 48, 32, 1082, 1042, 1090>> >>),
      El("div", << <<49, 49, 48, 32, 75, 87>> >>),
      El("meta", << <<50, 46, 48, 32, 1083, 44, 32, 49, 53, 48, 32, 1083, 46, 1089, 46>> >>),
      El("dt", << <<1055, 1088, 1086, 1073, 1077, 1075>>, <<52, 53, 32, 48, 48, 48, 32, 1082, 1084>> >>),
      El("dt", << <<1055, 1088, 1086, 1073, 1077, 1075>>, <<48, 32, 1082, 1084>> >>),
      El("tr", << <<1055, 1088, 1086, 1073, 1077, 1075>>, <<55, 32, 1082, 1084>> >>),
      El("div", << <<1087, 1088, 1086, 1073, 1077, 1075, 32, 49, 50, 48, 32, 48, 48, 48, 32, 1082, 1084>> >>),
      El("h1", << <<1055, 1088, 1086, 1076, 1072, 1078, 1072, 32, 84, 111, 121, 111, 116, 97, 32, 67, 97, 109, 114, 121, 32, 40, 88, 86, 55, 48, 41, 44, 32, 50, 48, 49, 56, 32, 1075, 1086, 1076, 32, 1074, 32, 1052, 1086, 1089, 1082, 1074, 1077>> >>),
      El("h1", << <<76, 97, 100, 97, 32, 71, 114, 97, 110, 116, 97, 32, 1088, 1077, 1089, 1090, 1072, 1081, 1083, 1080, 1085, 1075>> >>),
      El("h1", << <<84, 111, 121, 111, 116, 97, 32, 67, 97, 109, 114, 121, 32, 50, 48, 49, 56, 10, 1075, 1086, 1076>> >>),
      El("crumbs", << <<1055, 1088, 1086, 1076, 1072, 1078, 1072, 32, 1072, 1074, 1090, 1086>>, <<84, 111, 121, 111, 116, 97>>, <<67, 97, 109, 114, 121>> >>),
      El("price", << <<49, 32, 50, 53, 48, 32, 48, 48, 48, 32, 8381>> >>),
      El("metaprice", << <<57, 57, 48, 48, 48, 48>> >>),
      El("dt", << <<1044, 1074, 1080, 1075, 1072, 1090, 1077, 1083, 1100>>, <<1073, 1077, 1085, 1079, 1080, 1085, 44, 32, 49, 57, 57, 56, 32, 1089, 1084, 51>> >>),
      El("dt", << <<1050, 1086, 1088, 1086, 1073, 1082, 1072, 32, 1087, 1077, 1088, 1077, 1076, 1072, 1095>>, <<1072, 1074, 1090, 1086, 1084, 1072, 1090>> >>),
      El("dt", << <<1055, 1088, 1080, 1074, 1086, 1076>>, <<1087, 1077, 1088, 1077, 1076, 1085, 1080, 1081>> >>),
      El("dt", << <<1058, 1080, 1087, 32, 1082, 1091, 1079, 1086, 1074, 1072>>, <<1057, 1077, 1076, 1072, 1085>> >>),
      El("div", << <<1076, 1078, 1080, 1087, 44, 32, 1087, 1086, 1083, 1085, 1099, 1081, 32, 1087, 1088, 1080, 1074, 1086, 1076>> >>),
      El("dt", << <<1042, 1083, 1072, 1076, 1077, 1083, 1100, 1094, 1077, 1074>>, <<50>> >>),
      El("dt", << <<1042, 1083, 1072, 1076, 1077, 1083, 1100, 1094, 1077, 1074>>, <<>> >>),
      El("dt", << <<1056, 1091, 1083, 1100>>, <<1083, 1077, 1074, 1099, 1081>> >>),
      El("dt", << <<1056, 1091, 1083, 1100>>, <<1082, 1086, 1078, 1072, 1085, 1099, 1081>> >>),
      El("div", << <<1055, 1088, 1072, 1074, 1099, 1081, 32, 1088, 1091, 1083, 1100>> >>),
      El("h3", << <<1050, 1086, 1084, 1087, 1083, 1077, 1082, 1090, 1072, 1094, 1080, 1103>> >>),
      El("ul", << <<65, 66, 83>>, <<69, 83, 80>> >>),
      El("ul", << LongText >>),
      El("p", << <<1050, 1086, 1084, 1087, 1083, 1077, 1082, 1090, 1072, 1094, 1080, 1103, 58, 32, 1083, 1102, 1082, 1089, 44, 32, 1082, 1086, 1078, 1072, 59, 32, 1083, 1102, 1082>> >>) }

DetPages == UNION {[1..n -> DetElements] : n \in 0..MaxParts}

\* _parse_detail_from_text is called with a fetched page.
DetInit ==
    /\ rev \in Revisions
    /\ detPc = "called"
    /\ detPage \in DetPages
    /\ detRecord = <<>>

\* _parse_detail_from_text returns the Record.
DetReturn ==
    /\ detPc = "called"
    /\ detPc' = "returned"
    /\ detRecord' = ParseDetail(rev, DetHref, detPage)
    /\ UNCHANGED <<rev, detPage, NotDet>>

-----------------------------------------------------------------------------
(* The record sink: save_csv(items, path).  The file system is the set of  *)
(* directories that exist below the working directory and, for each path,  *)
(* the file there: its header row and its data rows, each a sequence of    *)
(* cell texts.  The working directory itself always exists.                *)

\* keys of save_csv, src/parser/parser_mod.py
CsvKeysMod ==
    << "url", "brand", "model", "year", "generation", "restyling", "price",
       "engine_volume", "fuel_t", "power_hp", "transmission", "drive",
       "body-type", "mileage", "owners", "steering", "equipment" >>

\* keys of save_csv, src/parser.py
CsvKeys ==
    << "brand", "model", "year", "generation", "price", "price_num",
       "engine", "power_l_s", "transmission", "drive", "body_type",
       "mileage", "owners_count", "steering", "equipment" >>

Keys(r) == IF r = "parser_mod" THEN CsvKeysMod ELSE CsvKeys

\* str(n) for an int n >= 0
RECURSIVE IntStr(_)
IntStr(n) == IF n < 10 THEN <<48 + n>> ELSE IntStr(n \div 10) \o <<48 + (n % 10)>>

\* The decimals of a float held in thousandths, as repr writes them.
Decimals(m) ==
    IF m % 1000 = 0 THEN <<48>>
    ELSE IF m % 100 = 0 THEN <<48 + (m % 1000) \div 100>>
    ELSE IF m % 10 = 0 THEN <<48 + (m % 1000) \div 100, 48 + (m % 100) \div 10>>
    ELSE <<48 + (m % 1000) \div 100, 48 + (m % 100) \div 10, 48 + (m % 10)>>

\* str(x) for a float x >= 0 held in thousandths
FloatStr(m) == IntStr(m \div 1000) \o <<46>> \o Decimals(m)

\* The text the csv writer puts in a cell: str(value).
CellText(v) ==
    CASE v.type = "int" -> IntStr(v.val)
      [] v.type = "float" -> FloatStr(v.val)
      [] v.type = "bool" -> IF v.val THEN <<84, 114, 117, 101>> ELSE <<70, 97, 108, 115, 101>>
      [] OTHER -> v.val

\* it.get(k, default), as a cell
CellOf(it, k, default) == IF HasField(it, k) THEN CellText(Field(it, k)) ELSE default

\* The row of a Record: save_csv of src/parser/parser_mod.py fills a
\* missing key with "N/A", DictWriter of src/parser.py with its restval "".
CsvRow(r, it) ==
    [i \in 1..Len(Keys(r)) |->
        CellOf(it, Keys(r)[i], IF r = "parser_mod" THEN StrNA ELSE <<>>)]

CsvRows(r, items) == [i \in 1..Len(items) |-> CsvRow(r, items[i])]

\* A save_csv without the guard "if not items".
NothingToSaveNever(items) == FALSE

\* "if not items"
NothingToSave(items) == items = <<>>

\* The position of the last '/' of a path, 0 without one.
LastSlash(p) ==
    LET S == {i \in 1..Len(p) : p[i] = 47}
    IN  IF S = {} THEN 0 ELSE Max(S)

RECURSIVE RStripSlash(_)
RStripSlash(s) ==
    IF s # <<>> /\ s[Len(s)] = 47 THEN RStripSlash(SubSeq(s, 1, Len(s) - 1)) ELSE s

\* os.path.dirname(path)
Dirname(p) ==
    LET head == SubSeq(p, 1, LastSlash(p))
    IN  IF RStripSlash(head) = <<>> THEN head ELSE RStripSlash(head)

\* os.makedirs(d, exist_ok=True): d and the directories above it
RECURSIVE MakeDirs(_)
MakeDirs(d) == IF d = <<>> THEN {} ELSE {d} \cup MakeDirs(Dirname(d))

NoFile == [exists |-> FALSE]
File(header, rows) == [exists |-> TRUE, header |-> header, rows |-> rows]

\* open(path, "w") finds the directory of the path
CanOpen(f, path) == Dirname(path) = <<>> \/ Dirname(path) \in f.dirs

\* The file system after save_csv(items, path) on the file system f.
save_csv(r, items, path, f) ==
    IF NothingToSave(items) THEN f
    ELSE LET made == IF r = "parser_mod"
                     THEN [f EXCEPT !.dirs = @ \cup MakeDirs(Dirname(path))]
                     ELSE f
         IN  IF CanOpen(made, path)
             THEN [made EXCEPT !.files[path] = File(Keys(r), CsvRows(r, items))]
             ELSE made

\* open raises FileNotFoundError in src/parser.py when the directory of the
\* path does not exist
SaveRaises(r, items, path, f) ==
    ~NothingToSave(items) /\ r # "parser_mod" /\ ~CanOpen(f, path)

\* Number of Records handed to save_csv.
MaxItems == 2

\* "drom_full_2.csv", "out/drom.csv"
CsvPaths == { <<100, 114, 111, 109, 95, 102, 117, 108, 108, 95, 50, 46, 99, 115, 118>>, <<111, 117, 116, 47, 100, 114, 111, 109, 46, 99, 115, 118>> }

\* The pages whose Records are saved.
CsvPages ==
    { <<>>,
      << El("h1", << <<84, 111, 121, 111, 116, 97, 32, 67, 97, 109, 114, 121, 44, 32, 50, 48, 49, 56, 32, 1075, 1086, 1076>> >>),
         El("dt", << <<1044, 1074, 1080, 1075, 1072, 1090, 1077, 1083, 1100>>, <<1073, 1077, 1085, 1079, 1080, 1085, 44, 32, 50, 46, 53, 32, 1083, 44, 32, 49, 56, 49, 32, 1083, 46, 1089, 46>> >>) >>,
      << El("price", << <<49, 32, 50, 53, 48, 32, 48, 48, 48, 32, 8381>> >>),
         El("dt", << <<1055, 1088, 1086, 1073, 1077, 1075>>, <<52, 53, 32, 48, 48, 48, 32, 1082, 1084>> >>) >> }

\* A file that an earlier run left.
OldFile == File(<<"url">>, << <<DetHref>> >>)

\* The file systems save_csv starts from: a file lies in a directory that
\* exists.
FileSystems ==
    {f \in [dirs : SUBSET ({Dirname(p) : p \in CsvPaths} \ {<<>>}),
            files : [CsvPaths -> {NoFile, OldFile}]] :
        \A p \in CsvPaths : f.files[p].exists => CanOpen(f, p)}

\* main_sync calls save_csv with the Records of the run.
CsvInit ==
    /\ rev \in Revisions
    /\ csvPc = "called"
    /\ \E ps \in UNION {[1..n -> CsvPages] : n \in 0..MaxItems} :
           csvItems = [i \in 1..Len(ps) |-> ParseDetail(rev, DetHref, ps[i])]
    /\ csvPath \in CsvPaths
    /\ fs \in FileSystems

\* save_csv runs to its end, or to the exception of open.
SaveCsv ==
    /\ csvPc = "called"
    /\ csvPc' = IF SaveRaises(rev, csvItems, csvPath, fs) THEN "raised" ELSE "returned"
    /\ fs' = save_csv(rev, csvItems, csvPath, fs)
    /\ UNCHANGED <<rev, csvItems, csvPath, NotCsv>>


-----------------------------------------------------------------------------
(* The listing page scanner: the body of the loop of collect_links for one *)
(* fetched listing page.  A page is its URL and its anchors in document    *)
(* order; an anchor is [marked, href, text]: whether it carries            *)
(* data-ftid="bull_title", its href attribute ("" when it has none) and    *)
(* its text.  The hrefs are absolute ("https://host/path"), root-relative  *)
(* ("/path") or relative ("seg/seg") and hold no query, fragment or dot    *)
(* segment.                                                                *)

Anchor(marked, href, text) == [marked |-> marked, href |-> href, text |-> text]

\* "://"
StrSchemeSep == <<58, 47, 47>>

\* The position of the "://" of an absolute URL, 0 without one.
SchemeEnd(u) == FindLit(StrSchemeSep, u)

\* The position of the first '/' of the path of an absolute URL, or
\* Len(u) + 1 when it has no path.
PathStart(u) ==
    LET S == {i \in (SchemeEnd(u) + 3)..Len(u) : u[i] = 47}
    IN  IF S = {} THEN Len(u) + 1 ELSE Min(S)

\* urlparse(u).netloc and urlparse(u).path of an absolute URL
Netloc(u) == SubSeq(u, SchemeEnd(u) + 3, PathStart(u) - 1)
Path(u) == SubSeq(u, PathStart(u), Len(u))

\* The base URL up to its last '/', with "/" for a base without a path.
BaseDir(base) ==
    IF Path(base) = <<>> THEN base \o <<47>>
    ELSE SubSeq(base, 1, PathStart(base) - 1 + LastSlash(Path(base)))

\* urljoin(base, href) for an absolute base and a href that is not ""
urljoin(base, href) ==
    IF SchemeEnd(href) # 0 THEN href
    ELSE IF href[1] = 47 THEN SubSeq(base, 1, PathStart(base) - 1) \o href
    ELSE BaseDir(base) \o href

\* "drom.ru", "/all/", "/page", "/cars/", "/avtomobili/"
StrDromRu == <<100, 114, 111, 109, 46, 114, 117>>
StrAll == <<47, 97, 108, 108, 47>>
StrPage == <<47, 112, 97, 103, 101>>
StrCars == <<47, 99, 97, 114, 115, 47>>
StrAvtomobili == <<47, 97, 118, 116, 111, 109, 111, 98, 105, 108, 105, 47>>

\* [s for s in path.split('/') if s]: how many
Segments(path) ==
    Cardinality({i \in 1..Len(path) : path[i] # 47 /\ (i = 1 \/ path[i - 1] = 47)})

\* "len(txt) > 3 and re.search(r'\d', txt) or len(txt.split()) >= 2"
LooksLikeTitle(txt) ==
    \/ Len(txt) > 3 /\ \E i \in 1..Len(txt) : IsDigit(txt[i])
    \/ Len(Split(txt)) >= 2

\* src/parser/parser_mod.py keeps the resolved URL u of an anchor
KeepsMod(u, a) ==
    /\ Contains(StrDromRu, Netloc(u))
    /\ ~(Contains(StrAll, Path(u)) \/ Contains(StrPage, Path(u)))
    /\ Segments(Path(u)) >= 2 \/ LooksLikeTitle(a.text)

\* candidates of src/parser/parser_mod.py: the last selector, 'a[href]',
\* selects every anchor, so every anchor with a href is tried
Candidates(page) ==
    {urljoin(page.url, page.anchors[i].href) :
        i \in {j \in 1..Len(page.anchors) :
                 /\ page.anchors[j].href # <<>>
                 /\ KeepsMod(urljoin(page.url, page.anchors[j].href), page.anchors[j])}}

IsMarked(a) == a.marked

\* The fallback of src/parser.py: anchors whose href holds "/cars/" or
\* "/avtomobili/"
IsCarAnchor(a) == Contains(StrCars, a.href) \/ Contains(StrAvtomobili, a.href)

\* anchors of src/parser.py: the marked anchors, else the fallback
Anchors(page) ==
    IF SelectSeq(page.anchors, IsMarked) # <<>> THEN SelectSeq(page.anchors, IsMarked)
    ELSE SelectSeq(page.anchors, IsCarAnchor)

HasHref(a) == a.href # <<>>

\* "https://auto.drom.ru"
StrSite == <<104, 116, 116, 112, 115, 58, 47, 47, 97, 117, 116, 111, 46, 100, 114, 111, 109, 46, 114, 117>>

\* The links src/parser.py appends for a page, in document order.
PageLinksOf(page) ==
    LET as == SelectSeq(Anchors(page), HasHref)
    IN  [i \in 1..Len(as) |-> urljoin(StrSite, as[i].href)]

\* The lists the scan of a page may add to the links: list(candidates) in
\* the iteration order of the set, or the list of src/parser.py.
ScanLinks(r, page) ==
    IF r = "parser_mod" THEN SetOrders(Candidates(page)) ELSE {PageLinksOf(page)}

\* Number of anchors of a listing page.
MaxAnchors == 3

\* DROM_BASE.format(2)
ScanUrl == <<104, 116, 116, 112, 115, 58, 47, 47, 97, 117, 116, 111, 46, 100, 114, 111, 109, 46, 114, 117, 47, 97, 108, 108, 47, 112, 97, 103, 101, 50, 47>>

\* The anchors of the listing pages explored.
ScanAnchors ==
    { Anchor(TRUE, <<104, 116, 116, 112, 115, 58, 47, 47, 97, 117, 116, 111, 46, 100, 114, 111, 109, 46, 114, 117, 47, 116, 111, 121, 111, 116, 97, 47, 99, 97, 109, 114, 121, 47, 49, 46, 104, 116, 109, 108>>, <<84, 111, 121, 111, 116, 97, 32, 67, 97, 109, 114, 121, 44, 32, 50, 48, 49, 56>>),
      Anchor(TRUE, <<47, 107, 105, 97, 47, 114, 105, 111, 47, 50, 46, 104, 116, 109, 108>>, <<75, 105, 97, 32, 82, 105, 111>>),
      Anchor(TRUE, <<108, 97, 100, 97, 47, 103, 114, 97, 110, 116, 97, 47, 51, 46, 104, 116, 109, 108>>, <<76, 97, 100, 97, 32, 71, 114, 97, 110, 116, 97>>),
      Anchor(TRUE, <<47, 53, 46, 104, 116, 109, 108>>, <<66, 77, 87>>),
      Anchor(TRUE, <<>>, <<65, 117, 100, 105, 32, 65, 52>>),
      Anchor(FALSE, <<47, 104, 111, 110, 100, 97, 47, 102, 105, 116, 47, 52, 46, 104, 116, 109, 108>>, <<72, 111, 110, 100, 97, 32, 70, 105, 116>>),
      Anchor(FALSE, <<47, 97, 108, 108, 47, 112, 97, 103, 101, 51, 47>>, <<51>>),
      Anchor(FALSE, <<104, 116, 116, 112, 115, 58, 47, 47, 101, 120, 97, 109, 112, 108, 101, 46, 99, 111, 109, 47, 99, 97, 114, 115, 47, 120, 46, 104, 116, 109, 108>>, <<1056, 1077, 1082, 1083, 1072, 1084, 1072>>),
      Anchor(FALSE, <<47, 99, 97, 114, 115, 47>>, <<1050, 1072, 1090, 1072, 1083, 1086, 1075>>) }

\* collect_links has a fetched listing page before it.
ScanInit ==
    /\ rev \in Revisions
    /\ scanPc = "called"
    /\ \E as \in UNION {[1..n -> ScanAnchors] : n \in 0..MaxAnchors} :
          scanPage = [url |-> ScanUrl, anchors |-> as]
    /\ scanOut = <<>>

\* The loop body has run: the page's links are added.
ScanReturn ==
    /\ scanPc = "called"
    /\ scanPc' = "returned"
    /\ scanOut' \in ScanLinks(rev, scanPage)
    /\ UNCHANGED <<rev, scanPage, NotScan>>


-----------------------------------------------------------------------------
(* One call of _extract_generation(title_text, kv).                        *)

\* The generation _extract_generation returns: the first component of the
\* pair of src/parser/parser_mod.py (None is ""), the str of src/parser.py.
ExtractGeneration(r, title, d) ==
    IF r = "parser_mod" THEN _extract_generation_mod(title, d).gen
    ELSE _extract_generation(title, d)

\* Number of keys of the dict handed to _extract_generation.
MaxGenKeys == 2

\* Titles: none, one without a marker, one with a roman numeral in
\* parentheses, one with the word and a number.
GenTitles ==
    { <<>>,
      <<84, 111, 121, 111, 116, 97, 32, 67, 97, 109, 114, 121>>,
      <<84, 111, 121, 111, 116, 97, 32, 67, 97, 109, 114, 121, 32, 40, 73, 73, 41>>,
      <<84, 111, 121, 111, 116, 97, 32, 67, 97, 109, 114, 121, 32, 1087, 1086, 1082, 1086, 1083, 1077, 1085, 1080, 1077, 32, 50>> }

\* Entries of the dict: two generation keys in Russian and in English, a
\* third key that holds the English word, and a key of another field.
GenEntries ==
    { Entry(<<1087, 1086, 1082, 1086, 1083, 1077, 1085, 1080, 1077>>, <<51>>),
      Entry(<<103, 101, 110, 101, 114, 97, 116, 105, 111, 110>>, <<52>>),
      Entry(<<103, 101, 110, 101, 114, 97, 116, 105, 111, 110, 32, 99, 111, 100, 101>>, <<88, 86, 55, 48>>),
      Entry(<<1082, 1091, 1079, 1086, 1074>>, <<1089, 1077, 1076, 1072, 1085>>) }

\* The dicts: a key stands once in a dict.
GenMaps ==
    {d \in UNION {[1..n -> GenEntries] : n \in 0..MaxGenKeys} :
        \A i, j \in 1..Len(d) : d[i].k = d[j].k => i = j}

\* _extract_generation is called.
GenInit ==
    /\ rev \in Revisions
    /\ genPc = "called"
    /\ genTitle \in GenTitles
    /\ genKv \in GenMaps
    /\ genOut = <<>>

\* _extract_generation returns.
GenReturn ==
    /\ genPc = "called"
    /\ genPc' = "returned"
    /\ genOut' = ExtractGeneration(rev, genTitle, genKv)
    /\ UNCHANGED <<rev, genTitle, genKv, NotGen>>


-----------------------------------------------------------------------------
(* One call of _norm_key(k).                                               *)

\* Length of the raw keys.
MaxKeyLen == 3

\* The characters of the raw keys: a lower-case and an upper-case letter,
\* the colon, the space, the tab and the no-break space.
KeyChars == {1087, 1055, 58, 32, 9, 160}

RawKeys == UNION {[1..n -> KeyChars] : n \in 0..MaxKeyLen}

\* _norm_key is called.
NormInit ==
    /\ rev \in Revisions
    /\ normPc = "called"
    /\ normKey \in RawKeys
    /\ normOut = <<>>

\* _norm_key returns.
NormReturn ==
    /\ normPc = "called"
    /\ normPc' = "returned"
    /\ normOut' = _norm_key(normKey)
    /\ UNCHANGED <<rev, normKey, NotNorm>>


-----------------------------------------------------------------------------
(* The navigation of the dashboard: go_to_page, go_back and go_home over   *)
(* st.session_state.page and st.session_state.history.                     *)

\* Length of the history stack explored.
MaxHistory == 4

\* The pages the navigation panel of src/app_backup.py goes to.
PageNames == {"main", "analytics", "comparison", "history"}

\* The session state after the script's first run: page 'main', history [].
NavInit ==
    /\ rev = "parser_mod"  \* the crawler does not run
    /\ navPage = "main"
    /\ navHistory = <<>>

\* go_to_page(page_name)
go_to_page(page_name) ==
    /\ navPage' = page_name
    /\ navHistory' = IF page_name # "history" THEN Append(navHistory, page_name)
                     ELSE navHistory
    /\ UNCHANGED <<rev, NotNav>>

\* go_back()
go_back ==
    /\ IF Len(navHistory) > 1
       THEN /\ navHistory' = SubSeq(navHistory, 1, Len(navHistory) - 1)
            /\ navPage' = navHistory'[Len(navHistory')]
       ELSE /\ navPage' = "main"
            /\ navHistory' = navHistory
    /\ UNCHANGED <<rev, NotNav>>

\* go_home()
go_home ==
    /\ navPage' = "main"
    /\ navHistory' = <<"main">>
    /\ UNCHANGED <<rev, NotNav>>

\* A call of go_to_page with the name of a page.  The sessions explored
\* are those whose history stays within MaxHistory entries.
GoToPage ==
    \E name \in PageNames :
        /\ name # "history" => Len(navHistory) < MaxHistory
        /\ go_to_page(name)


-----------------------------------------------------------------------------
(* The parts of the model a specification does not run stay idle.          *)

DetIdle == detPc = "idle" /\ detPage = <<>> /\ detRecord = <<>>

CsvIdle == csvPc = "idle" /\ csvItems = <<>> /\ csvPath = <<>> /\ fs = <<>>

ScanIdle == scanPc = "idle" /\ scanPage = <<>> /\ scanOut = <<>>

GenIdle == genPc = "idle" /\ genTitle = <<>> /\ genKv = <<>> /\ genOut = <<>>

NormIdle == normPc = "idle" /\ normKey = <<>> /\ normOut = <<>>

NavIdle == navPage = "unset" /\ navHistory = <<>>

UnitsIdle ==
    PriceIdle
    /\ DetIdle
    /\ CsvIdle
    /\ ScanIdle
    /\ GenIdle
    /\ NormIdle
    /\ NavIdle

-----------------------------------------------------------------------------
(* Specifications.                                                         *)

\* A crawl run: main_async.
Init == CrawlInit /\ EncIdle /\ KvIdle /\ DromIdle /\ UnitsIdle
Next ==
    \/ CollectStart
    \/ AcquireStep
    \/ SendStep
    \/ FinishStep
    \/ CollectReturn
    \/ ReturnEmpty
    \/ DetailsStart
    \/ DetailsParse
    \/ DetailsParsed
    \/ DetailsReturn
Spec == Init /\ [][Next]_vars

\* A crawl run under a fair scheduler: the event loop runs every task that
\* can take a step, and every request completes or times out (aiohttp's
\* timeout=30), so a step that stays possible is taken.
SpecLive == Init /\ [][Next]_vars /\ WF_vars(Next)

\* One response decoded by the encoding resolver.
InitEnc == EncInit /\ KvIdle /\ CrawlIdle /\ DromIdle /\ UnitsIdle
NextEnc == EncFetch \/ EncCall
SpecEnc == InitEnc /\ [][NextEnc]_vars

\* One detail page scanned by the key/value extractor.
InitKv == KvInit /\ EncIdle /\ CrawlIdle /\ DromIdle /\ UnitsIdle
NextKv == KvStep \/ KvReturn
SpecKv == InitKv /\ [][NextKv]_vars

\* A run of the sequential crawler: parse_drom.
InitDrom == DromInit /\ EncIdle /\ KvIdle /\ CrawlIdle /\ UnitsIdle
NextDrom ==
    \/ DromListOk
    \/ DromListFail
    \/ DromListEnd
    \/ DromDetail
    \/ DromReturn
SpecDrom == InitDrom /\ [][NextDrom]_vars

\* One call of _parse_price.
InitPrice ==
    PriceInit /\ EncIdle /\ KvIdle /\ CrawlIdle /\ DromIdle /\ DetIdle /\ CsvIdle
    /\ ScanIdle
    /\ GenIdle
    /\ NormIdle
    /\ NavIdle
NextPrice == PriceReturn
SpecPrice == InitPrice /\ [][NextPrice]_vars

\* One call of _parse_detail_from_text.
InitDetail ==
    DetInit /\ EncIdle /\ KvIdle /\ CrawlIdle /\ DromIdle /\ PriceIdle /\ CsvIdle
    /\ ScanIdle
    /\ GenIdle
    /\ NormIdle
    /\ NavIdle
NextDetail == DetReturn
SpecDetail == InitDetail /\ [][NextDetail]_vars

\* One call of save_csv.
InitCsv ==
    CsvInit /\ EncIdle /\ KvIdle /\ CrawlIdle /\ DromIdle /\ PriceIdle /\ DetIdle
    /\ ScanIdle
    /\ GenIdle
    /\ NormIdle
    /\ NavIdle
NextCsv == SaveCsv
SpecCsv == InitCsv /\ [][NextCsv]_vars

\* One listing page scanned by collect_links.
InitScan ==
    ScanInit /\ EncIdle /\ KvIdle /\ CrawlIdle /\ DromIdle /\ PriceIdle /\ DetIdle
    /\ CsvIdle
    /\ GenIdle
    /\ NormIdle
    /\ NavIdle
NextScan == ScanReturn
SpecScan == InitScan /\ [][NextScan]_vars

\* One call of _extract_generation.
InitGen ==
    GenInit /\ EncIdle /\ KvIdle /\ CrawlIdle /\ DromIdle /\ PriceIdle /\ DetIdle
    /\ CsvIdle /\ ScanIdle
    /\ NormIdle
    /\ NavIdle
NextGen == GenReturn
SpecGen == InitGen /\ [][NextGen]_vars


\* One call of _norm_key.
InitNorm ==
    NormInit /\ EncIdle /\ KvIdle /\ CrawlIdle /\ DromIdle /\ PriceIdle /\ DetIdle
    /\ CsvIdle /\ ScanIdle /\ GenIdle
    /\ NavIdle
NextNorm == NormReturn
SpecNorm == InitNorm /\ [][NextNorm]_vars


\* A session of the dashboard: any sequence of navigation calls.
InitNav ==
    NavInit /\ EncIdle /\ KvIdle /\ CrawlIdle /\ DromIdle /\ PriceIdle /\ DetIdle
    /\ CsvIdle /\ ScanIdle /\ GenIdle /\ NormIdle
NextNav == go_home \/ go_back \/ GoToPage
SpecNav == InitNav /\ [][NextNav]_vars


-----------------------------------------------------------------------------
(* The claims.                                                             *)

\* The tasks whose request did not raise.
Fetched == {i \in 1..Len(urls) : tstatus[i] # 0}

\* The records of URL u.
RecordsOf(u) == {j \in 1..Len(records) : records[j].url = u}

\* C1: when fetch_and_parse_details has returned, the record list holds
\* exactly one record for every URL whose fetch succeeded, built from that
\* URL's own page, and no record for a URL whose fetch failed.
C1_FailureIsolation ==
    (phase = "done" /\ links # <<>>) =>
        /\ Len(records) = Cardinality(Fetched)
        /\ \A i \in 1..Len(urls) :
              IF i \in Fetched
              THEN /\ Cardinality(RecordsOf(urls[i])) = 1
                   /\ tres[i].some
                   /\ \A j \in RecordsOf(urls[i]) : records[j].page = tres[i].text.doc
              ELSE RecordsOf(urls[i]) = {}

FirstIndex(seq, x) == Min({i \in 1..Len(seq) : seq[i] = x})

\* The links on the listing pages that were fetched.
Discovered ==
    UNION {Range(tres[i].text.anchors) : i \in {k \in 1..Len(tres) : tres[k].some}}

\* C2: the list collect_links returns holds every discovered URL exactly
\* once, in the order of the URLs' first occurrences in the list before
\* deduplication.
C2_DedupeFirstSeen ==
    phase = "collected" =>
        /\ \A i, j \in 1..Len(links) : links[i] = links[j] => i = j
        /\ Range(links) = Discovered
        /\ Range(links) = Range(rawLinks)
        /\ \A i, j \in 1..Len(links) :
              i < j => FirstIndex(rawLinks, links[i]) < FirstIndex(rawLinks, links[j])

\* C2's case: the collected list held a repeat after a different link, and
\* three distinct links were returned.
C2_Witness ==
    /\ phase = "collected"
    /\ Len(links) = 3
    /\ \E i, j, k \in 1..Len(rawLinks) :
          i < j /\ j < k /\ rawLinks[i] = rawLinks[k] /\ rawLinks[i] # rawLinks[j]

\* The fetches past the limiter and not yet finished.
InFlight == {i \in 1..Len(tpc) : tpc[i] \in {"sleep", "get"}}

\* C3: in each phase the fetches that hold a limiter slot number at most
\* the phase's limiter size: max(2, concurrency // 2) while listing,
\* concurrency while fetching details.
C3_LimiterBound ==
    /\ phase = "listing" => Cardinality(InFlight) <= ListingLimiter(concurrency)
    /\ phase = "detail" => Cardinality(InFlight) <= concurrency

\* C3's case: every slot of the limiter is taken while another task waits
\* for one.
C3_Witness ==
    /\ phase \in {"listing", "detail"}
    /\ semSize >= 1
    /\ Cardinality(InFlight) = semSize
    /\ \E i \in 1..Len(tpc) : tpc[i] = "acquire"

\* C4: a fetch whose response has a status outside 200..299 returns None.
C4_NonSuccessIsFailure ==
    \A i \in 1..Len(tpc) :
        (tpc[i] = "done" /\ tstatus[i] \notin 200..299) => ~tres[i].some

\* C5: when the listing phase is over, every listing page 1..pages has been
\* requested, whichever of them failed.
C5_ListingFailureIsolated ==
    dromPc \in {"details", "done"} =>
        \A p \in 1..dromPages : \E k \in 1..Len(dromRequests) : dromRequests[k] = DromBase(p)

\* The scan results of the fetched pages concatenated in page order, each
\* page's links in document order.
RECURSIVE PageOrderConcat(_)
PageOrderConcat(results) ==
    IF results = <<>> THEN <<>>
    ELSE (IF Head(results).some THEN Head(results).text.anchors ELSE <<>>)
         \o PageOrderConcat(Tail(results))

\* C6: the list collect_links returns is the first-seen deduplication of
\* the pages' scan results concatenated in page order, each page's links in
\* the order found on the page.
C6_PageOrderMerge ==
    phase = "collected" => links = Dedupe(PageOrderConcat(tres))

\* C7: a step of _parse_kv_pairs never changes the value of a key the dict
\* already holds.
C7_FirstSeenWins ==
    [][\A i \in 1..Len(kv) : KvHas(kv', kv[i].k) /\ KvGet(kv', kv[i].k) = kv[i].v]_vars

\* C8: a response whose Content-Type header declares cp1251 or windows-1251
\* is decoded as cp1251 with invalid bytes replaced.
C8_HeaderCp1251 ==
    (encPc = "done" /\ DeclaresCp1251(respHeaders)) =>
        encText = DecodeCp1251(content, "replace")

\* C9: a response whose header declares no cp1251 and whose first 2000
\* bytes hold the marker charset=windows-1251 is decoded as cp1251.
C9_MarkerCp1251 ==
    (encPc = "done" /\ ~DeclaresCp1251(respHeaders) /\ HasCharsetMarker(content)) =>
        encText = DecodeCp1251(content, "replace")

\* C10: the resolver always returns a text, and for a body that is not
\* valid UTF-8 and falls under no cp1251 rule the text is the UTF-8
\* decoding with replacement characters.
C10_ResolverTotal ==
    encPc \in {"done", "called"} =>
        /\ encText.ok
        /\ (/\ ~DecodeUtf8(content, "strict").ok
            /\ ~DeclaresCp1251(respHeaders)
            /\ ~HasCharsetMarker(content))
           => encText = DecodeUtf8(content, "replace")

\* The numeric tokens of a price text, as _parse_price finds them.
PriceTokens(text) == Cleaned(FindNums(ReplaceNbsp(Strip(text))))

\* C11: for a price text all of whose numeric tokens lie in 1900..2099,
\* _parse_price returns no number.
C11_YearIsNoPrice ==
    (/\ pricePc = "returned"
     /\ PriceTokens(priceText) # <<>>
     /\ \A i \in 1..Len(PriceTokens(priceText)) : IsYear(PriceTokens(priceText)[i]))
    => PriceNumber(rev, priceOut) = None

\* The Record's field that holds the power.
PowerKey == IF rev = "parser_mod" THEN "power_hp" ELSE "power_l_s"

\* The dict _parse_kv_pairs builds from the page.
DetKv == _parse_kv_pairs(rev, KvView(detPage))

\* A text gives a number of 2 to 4 digits followed by a kilowatt unit and
\* holds no horsepower marker.
GivesKw(t) == FirstNumUnit(t, IsKwUnit) # 0 /\ FirstNumUnit(t, IsHpUnit) = 0

KwOf(t) == NumAt(t, FirstNumUnit(t, IsKwUnit))

\* "мощность"
StrPowerKey == <<1084, 1086, 1097, 1085, 1086, 1089, 1090, 1100>>

\* C12: a kilowatt figure n without a horsepower marker gives the power
\* round(n * 1.35962), when it is the value of the dict's only entry
\* "мощность" and when it stands in the page text of a page with an empty
\* dict.
C12_KilowattToHp ==
    detPc = "returned" =>
        /\ (/\ Len(DetKv) = 1
            /\ DetKv[1].k = StrPowerKey
            /\ GivesKw(DetKv[1].v))
           => SameValue(Field(detRecord, PowerKey), IntV(KwToHp(KwOf(DetKv[1].v))))
        /\ (/\ DetKv = <<>>
            /\ GivesKw(GetText(StrSpace, detPage)))
           => SameValue(Field(detRecord, PowerKey),
                        IntV(KwToHp(KwOf(GetText(StrSpace, detPage)))))

\* A mileage value "<digits, possibly space-grouped> км".
IsMileageValue(v) ==
    /\ Len(v) >= 4
    /\ SubSeq(v, Len(v) - 2, Len(v)) = <<32>> \o StrKm
    /\ IsDigit(v[1])
    /\ \A i \in 1..(Len(v) - 3) : IsDigit(v[i]) \/ v[i] = 32

\* The page has no mileage source: no key of the dict holds "пробег" and
\* the page holds no "км".
NoMileageSource ==
    /\ KvFind(DetKv, {StrProbeg}) = 0
    /\ ~Contains(StrKm, StrLower(PageHtml(detPage)))

\* C13: a page whose dict has the one mileage key "пробег" with the value
\* "<digits of n> км" gives the Record the integer mileage n, and a page
\* without a mileage source gives it the unknown sentinel.
C13_MileageInteger ==
    detPc = "returned" =>
        /\ \A i \in 1..Len(DetKv) :
              (/\ DetKv[i].k = StrProbeg
               /\ KvFind(DetKv, {StrProbeg}) = i
               /\ IsMileageValue(DetKv[i].v))
              => SameValue(Field(detRecord, "mileage"),
                           IntV(IntOf(OnlyDigits(DetKv[i].v))))
        /\ NoMileageSource => SameValue(Field(detRecord, "mileage"), NA)


-----------------------------------------------------------------------------
\* The columns of the spec, section 4.7.
RecordFields ==
    << "url", "brand", "model", "year", "generation", "restyling", "price",
       "engine_volume", "fuel_type", "power_hp", "transmission", "drive",
       "body_type", "mileage", "owners", "steering", "equipment" >>

\* The keys of a Record, in insertion order.
RecordKeys(rec) == [i \in 1..Len(rec) |-> rec[i].k]

\* C14: the header row that save_csv of src/parser/parser_mod.py writes, and
\* the keys of every Record of its detail extractor, are the sequence url,
\* brand, model, year, generation, restyling, price, engine_volume,
\* fuel_type, power_hp, transmission, drive, body_type, mileage, owners,
\* steering, equipment.
C14_FixedColumns ==
    (rev = "parser_mod" /\ csvPc = "returned" /\ csvItems # <<>>)
        => /\ fs.files[csvPath].header = RecordFields
           /\ \A i \in 1..Len(csvItems) : RecordKeys(csvItems[i]) = RecordFields

-----------------------------------------------------------------------------
\* C15: save_csv with an empty Record list returns and leaves the file
\* system as it was: no file is created or truncated and no directory is
\* made.  With a list that is not empty, the file at the path holds, when
\* save_csv returns, one data row per Record, in the order of the list.
C15_EmptyListWritesNothing ==
    [][csvPc = "called" =>
          IF csvItems = <<>>
          THEN csvPc' = "returned" /\ fs' = fs
          ELSE csvPc' = "returned" =>
                  /\ fs'.files[csvPath].exists
                  /\ Len(fs'.files[csvPath].rows) = Len(csvItems)
                  /\ \A i \in 1..Len(csvItems) :
                        fs'.files[csvPath].rows[i] = CsvRow(rev, csvItems[i])]_vars

\* save_csv has returned from a call with an empty list and a path in a
\* directory that does not exist.
C15_Witness ==
    csvPc = "returned" /\ csvItems = <<>> /\ ~CanOpen(fs, csvPath)


-----------------------------------------------------------------------------
\* The declared types of the Record fields (spec, section 3); every other
\* field is a string.
IntFields == {"year", "price", "power_hp", "mileage", "owners"}
FloatFields == {"engine_volume"}
BoolFields == {"restyling"}

DeclaredType(k) ==
    IF k \in IntFields THEN "int"
    ELSE IF k \in FloatFields THEN "float"
    ELSE IF k \in BoolFields THEN "bool"
    ELSE "str"

\* The entry holds a value of the field's declared type, not an empty
\* string, or the sentinel "N/A".
WellTyped(e) ==
    /\ e.v.type = "str" => e.v.val # <<>>
    /\ e.v.type = DeclaredType(e.k) \/ SameValue(e.v, NA)

\* C16: in every Record that _parse_detail_from_text returns, each field
\* holds a value of its declared type (an integer, a float, a boolean, a
\* string that is not empty) or the sentinel "N/A", whatever the
\* sub-extractors found.
C16_NoEmptyField ==
    detPc = "returned" => \A i \in 1..Len(detRecord) : WellTyped(detRecord[i])

-----------------------------------------------------------------------------
\* "left", "right"
StrLeft == <<108, 101, 102, 116>>
StrRight == <<114, 105, 103, 104, 116>>

\* C17: in every Record, steering is "left", "right" or the sentinel "N/A",
\* from a value of the key-value map as well as from the phrase scan of the
\* page.
C17_SteeringEnum ==
    detPc = "returned"
        => Field(detRecord, "steering").val \in {StrLeft, StrRight, StrNA}

-----------------------------------------------------------------------------
\* C18: in every Record, the equipment text has at most 2000 characters,
\* whichever source gave it: the list under an equipment heading, the block
\* after the heading, the regex capture or the title.
C18_EquipmentCapped ==
    detPc = "returned" => Len(Field(detRecord, "equipment").val) <= EquipmentCap


-----------------------------------------------------------------------------
\* The URLs of the listing pages.
ListingUrls == {u \in AllUrls : u.kind = "listing"}

\* C19: when the links are empty after the listing phase (every listing
\* fetch failed, pages <= 0, or no page had a link), main_async returns an
\* empty list of Records and has requested no detail page: only listing
\* pages were ever requested.
C19_EmptyLinkSetEndsRun ==
    (phase = "done" /\ links = <<>>) =>
        /\ records = <<>>
        /\ \A u \in AllUrls \ ListingUrls : requests[u] = 0
        /\ \A i \in 1..Len(urls) : urls[i] \in ListingUrls

\* C19's case: of two listing pages one fetch failed and the other page
\* had no link; the run has returned.
C19_Witness ==
    /\ phase = "done"
    /\ links = <<>>
    /\ Len(urls) = 2
    /\ tstatus[1] = 0
    /\ tstatus[2] = 200


-----------------------------------------------------------------------------
\* The URLs of the marked anchors of a page, resolved against the URL of
\* the page.
MarkedUrls(page) ==
    {urljoin(page.url, page.anchors[i].href) :
        i \in {j \in 1..Len(page.anchors) :
                 page.anchors[j].marked /\ page.anchors[j].href # <<>>}}

\* C20: for a listing page with at least one anchor that carries
\* data-ftid="bull_title", the scan returns the absolute URLs of the marked
\* anchors, resolved against the URL of the page, and no other URL.
C20_MarkedAnchorsOnly ==
    (scanPc = "returned" /\ \E i \in 1..Len(scanPage.anchors) : scanPage.anchors[i].marked)
        => Range(scanOut) = MarkedUrls(scanPage)

\* The markup shapes of a key/value pair, from the highest priority (1) to
\* the lowest (4); 0 for an element of no shape (a paragraph).
Shape(el) ==
    CASE el.tag = "dt" -> 1
      [] el.tag = "tr" -> 2
      [] el.tag = "li" -> 3
      [] el.tag \in {"strong", "b", "span"} -> 4
      [] OTHER -> 0

\* Whether the element is a key/value pair of its shape: a dt with its dd,
\* a row of two cells, a text with a colon.
IsPair(el) ==
    CASE el.tag \in {"dt", "tr"} -> Len(el.cells) >= 2
      [] OTHER -> HasColon(el.cells[1])

PairKey(el) ==
    IF el.tag \in {"dt", "tr"} THEN _norm_key(el.cells[1])
    ELSE _norm_key(SplitKey(el.cells[1]))

PairVal(el) ==
    IF el.tag \in {"dt", "tr"} THEN el.cells[2] ELSE Strip(SplitVal(el.cells[1]))

\* The elements of the page that give the key k in shape s.
Offers(page, k, s) ==
    {i \in 1..Len(page) :
        Shape(page[i]) = s /\ IsPair(page[i]) /\ PairKey(page[i]) = k}

\* The highest-priority shape that gives the key k.
TopShape(page, k) == Min({s \in 1..4 : Offers(page, k, s) # {}})

\* C21: when _parse_kv_pairs has returned, every key that a shape of the
\* page gives is in the dict with a value of the highest-priority shape
\* that gives it, in the order definition list > table row > list item >
\* inline tag.
C21_ShapePriority ==
    kvPc = "done" =>
        \A i \in 1..Len(kvPage) :
            (Shape(kvPage[i]) # 0 /\ IsPair(kvPage[i]) /\ PairKey(kvPage[i]) # <<>>) =>
                LET k == PairKey(kvPage[i])
                IN  /\ KvHas(kv, k)
                    /\ \E j \in Offers(kvPage, k, TopShape(kvPage, k)) :
                           KvGet(kv, k) = PairVal(kvPage[j])

\* C22: in a run every URL, a listing URL or a URL of the links, is
\* requested at most once: no fetch is sent again after it failed, and no
\* URL stands twice in the task lists of the two phases.
C22_RequestedAtMostOnce ==
    phase # "idle" => \A u \in AllUrls : requests[u] <= 1

\* C22's case: the run is over; three listing pages were requested, two of
\* them held the same link, a detail fetch raised, and every link was
\* requested once.
C22_Witness ==
    /\ phase = "done"
    /\ pages >= 3
    /\ \E p \in 1..pages : requests[DromBase(p)] = 1
    /\ Len(links) >= 3
    /\ \E i \in 1..Len(urls) : tstatus[i] = 0 /\ requests[urls[i]] = 1
    /\ \A i \in 1..Len(urls) : requests[urls[i]] = 1

\* The generation marker the title gives to src/parser.py: the text in the
\* first parentheses its pattern matches; "" if none.
TitleGen(t) ==
    LET P == {i \in 1..Len(t) : ParenGenAt(t, i)}
    IN  IF P = {} THEN <<>>
        ELSE Strip(SubSeq(t, Min(P) + 1, CloseParen(t, Min(P)) - 1))

\* The marker the title gives to the revision that runs.
TitleMarker(r, t) == IF r = "parser_mod" THEN TitleGenMod(t) ELSE TitleGen(t)

\* The entries of the dict whose key the revision takes for a generation
\* key.
GenKeys(r, d) ==
    IF r = "parser_mod" THEN {i \in 1..Len(d) : GenKeyMod(d[i].k)}
    ELSE {i \in 1..Len(d) :
            Contains(StrPokolen, d[i].k)
            \/ Contains(<<103, 101, 110, 101, 114, 97, 116, 105, 111, 110>>, d[i].k)}

\* C23: the generation is the marker of the title when the title gives
\* one, whatever the dict holds; when the title gives none and keys of the
\* dict match, it is the value of the first matching key in dict order.
C23_TitleThenFirstKey ==
    genPc = "returned" =>
        /\ TitleMarker(rev, genTitle) # <<>> => genOut = TitleMarker(rev, genTitle)
        /\ (TitleMarker(rev, genTitle) = <<>> /\ GenKeys(rev, genKv) # {}) =>
               genOut = genKv[Min(GenKeys(rev, genKv))].v

\* The numeric tokens of a price text outside 1900..2099.
PriceCandidates(text) == SelectSeq(PriceTokens(text), NotYear)

\* C24: for a price text without a price-on-request phrase that holds a
\* numeric token outside 1900..2099, _parse_price of
\* src/parser/parser_mod.py returns the largest of the tokens outside
\* 1900..2099, also when that token is below 1000 and there are several.
C24_LargestCandidate ==
    (/\ rev = "parser_mod"
     /\ pricePc = "returned"
     /\ ~OnRequest(ReplaceNbsp(Strip(priceText)))
     /\ PriceCandidates(priceText) # <<>>)
    => /\ priceOut = Some(Max(Range(PriceCandidates(priceText))))
       /\ ~IsYear(priceOut.n)

\* C24's case: two candidates below 1000, the smaller one first; the
\* larger candidate was returned.
C24_Witness ==
    /\ rev = "parser_mod"
    /\ pricePc = "returned"
    /\ ~OnRequest(ReplaceNbsp(Strip(priceText)))
    /\ Len(PriceCandidates(priceText)) = 2
    /\ PriceCandidates(priceText)[1] < PriceCandidates(priceText)[2]
    /\ PriceCandidates(priceText)[2] < 1000
    /\ priceOut = Some(PriceCandidates(priceText)[2])

\* C25: under a fair scheduler every run of main_async with pages >= 0 and
\* concurrency >= 0 returns its Record list: no fetch task waits forever
\* for a slot of the limiter.
C25_RunReturns ==
    (phase = "start" /\ pages >= 0 /\ concurrency >= 0) ~> (phase = "done")

\* C26: the key _norm_key returns is a fixed point of _norm_key and has no
\* white space at its start or its end.
C26_NormKeyIdempotent ==
    normPc = "returned" =>
        /\ _norm_key(normOut) = normOut
        /\ Strip(normOut) = normOut

\* C27: for a concurrency of at least 1, the limiter of the listing phase
\* is no larger than the limiter the detail phase is given, which is
\* asyncio.Semaphore(concurrency).
C27_ListingLimiterSmaller ==
    (phase = "listing" /\ concurrency >= 1) => semSize <= concurrency

\* The URLs of the detail pages requested so far.
DetailRequested == {u \in AllUrls : u.kind = "detail" /\ requests[u] > 0}

\* The kind of the URLs a phase fetches.
PhaseKind == IF phase = "listing" THEN "listing" ELSE "detail"

\* The limiter a phase was given.
PhaseLimiter == IF phase = "listing" THEN ListingLimiter(concurrency) ELSE concurrency

\* No detail page is requested before the links are there, and then every
\* listing page has been requested; the requests in flight are those of
\* the phase that runs, and they alone hold the slots of its limiter.
PhasesApart ==
    /\ DetailRequested # {} =>
           /\ phase \in {"detail", "done", "raised"}
           /\ DetailRequested \subseteq Range(links)
           /\ \A p \in 1..pages : requests[DromBase(p)] = 1
    /\ phase \in {"listing", "detail"} =>
           /\ \A i \in InFlight : urls[i].kind = PhaseKind
           /\ semSize = PhaseLimiter
           /\ sem + Cardinality(InFlight) = semSize

\* The detail phase starts from the state in which every listing fetch has
\* finished and collect_links has returned the links, with a limiter of its
\* own that has every slot free.
DetailAfterListing ==
    (phase # "detail" /\ phase' = "detail") =>
        /\ phase = "collected"
        /\ AllDone
        /\ Len(tpc) = (IF pages > 0 THEN pages ELSE 0)
        /\ InFlight = {}
        /\ urls' = links
        /\ sem' = concurrency

\* C28: no detail page is requested before every listing fetch has
\* finished and the links are computed; the two phases never have requests
\* in flight together, and each phase has a limiter of its own.
C28_PhasesInSequence == [](phase # "idle" => PhasesApart) /\ [][DetailAfterListing]_vars

\* C28's case: the detail phase runs with a request in flight after two
\* listing pages were requested.
C28_Witness ==
    /\ phase = "detail"
    /\ pages >= 2
    /\ \A p \in 1..pages : requests[DromBase(p)] = 1
    /\ \E i \in InFlight : tpc[i] = "get" /\ requests[urls[i]] = 1
    /\ \E i \in 1..Len(tpc) : tpc[i] = "acquire"

\* Whether the dict _parse_detail_from_text returns has the key "url".
HasUrlField(r) == HasField(ParseDetail(r, DetHref, <<>>), "url")

\* The records are in the order of the links they were built from.
InLinkOrder ==
    \A j, k \in 1..Len(records) :
        j < k => FirstIndex(links, records[j].url) < FirstIndex(links, records[k].url)

\* C29: the list fetch_and_parse_details returns is in the order of the
\* links, whatever the order in which the fetches finished, and every
\* Record has a field url that holds the link it was fetched from.
C29_LinkOrder ==
    (phase = "done" /\ links # <<>>) =>
        /\ \A j \in 1..Len(records) : records[j].url \in Range(links)
        /\ InLinkOrder
        /\ Len(records) > 0 => HasUrlField(rev)

\* C30: in every session state reached by go_to_page, go_back and go_home
\* from page 'main' with an empty history, a history that is not empty has
\* the current page on top, unless the current page is 'history'.
C30_PageOnTop ==
    (navPage # "unset" /\ navHistory # <<>> /\ navPage # "history")
        => navPage = navHistory[Len(navHistory)]

====
